---- MODULE Spec2Model ----
(***************************************************************************)
(* A model of dagrs' Graph (src/src/graph/graph.rs): building the graph    *)
(* with add_node / add_edge, the topological pass that detects loops and   *)
(* partitions the nodes into blocks, and the concurrent run of one task    *)
(* per (block, node) over tokio mpsc channels.                             *)
(***************************************************************************)
EXTENDS Integers, Sequences, FiniteSets, TLC

(***************************************************************************)
(* Bounds of the model.                                                    *)
(***************************************************************************)
\* node ids the client uses: 1..MaxNodes
MaxNodes == 3
\* length of the target list handed to one add_edge call
MaxTargets == 2
\* Spec: out-channels add_edge creates in all
MaxEdges == 2
\* Spec: calls of start() the client makes
MaxStarts == 1
\* SpecRestart: ids of the nodes the client adds: 1..MaxRestartNodes
MaxRestartNodes == 2
\* SpecRestart: out-channels add_edge creates in all
MaxRestartEdges == 2
\* SpecRestart: calls of start() the client makes
MaxRestartStarts == 2
\* SpecRestart: calls of reset() the client makes
MaxResets == 1
\* SpecBuild: calls of add_node the client makes (a call more than there are
\* ids adds an id again)
MaxAddNode == 3
\* SpecBuild: out-channels add_edge creates in all
MaxBuildEdges == 3
\* SpecBuild: calls of start() the client makes
MaxBuildStarts == 1

\* SpecChannel: out-channels add_edge creates in all
MaxWireEdges == 2
\* SpecChannel: send_to calls that deliver a message
MaxWireSends == 3
\* the contents a client sends: 1..MaxContent
MaxContent == 2

\* SpecBroadcast: the receivers of the broadcast channel
MaxConsumers == 2
\* SpecBroadcast: messages the producer sends
MaxBcstSends == 34

\* SpecAllocator: the threads that call alloc() concurrently
MaxCallers == 2
\* SpecAllocator: calls of alloc() made on each allocator
MaxAllocs == 8
\* SpecAllocator: the width w of the id counter, which wraps modulo 2^w
IdBits == 3

\* SpecEngines: the tasks handed to the legacy DagEngine, ids 1..MaxTasks
MaxTasks == 3
\* SpecEngines: the longest list of predecessors a task declares
MaxPredecessors == 2

\* SpecParser: the tasks of a YAML document
MaxYamlTasks == 2
\* SpecParser: the longest `after` list of a task
MaxAfter == 2
\* SpecParser: the ids other code has allocated before the file is parsed
MaxPreAllocs == 1

\* SpecLegacyYaml: the TaskWrappers made before the file is read
MaxLegacyAllocs == 7

\* SpecManager: the names given to Dags
MaxDagNames == 3
\* SpecManager: the calls of append_dag
MaxAppends == 3
\* SpecManager: the calls of run_dag and run_sequential
MaxManagerRuns == 2

\* SpecDerive: the identifiers the macro input is written with
MaxIdents == 3
\* SpecDerive: the successors written after one `->`
MaxSuccessors == 2
\* SpecDerive: the declarations of the macro input
MaxRelays == 2

\* SpecEnv: the calls of set_env
MaxSetEnvs == 2
\* SpecEnv: the values a variable is set to
MaxEnvValue == 2
\* SpecEnv: the tasks of the DagEngine
MaxEnvTasks == 2

\* SpecState: the ExecStates the client holds
MaxStates == 2
\* SpecState: the calls of set_output made on one ExecState
MaxSets == 2

(***************************************************************************)
(* Program constants.                                                      *)
(***************************************************************************)
\* mpsc::channel::<Content>(32)
ChannelCapacity == 32
\* usize arithmetic wraps modulo 2^w in a build without overflow checks; the
\* width kept here is far above any count the model reaches.
UsizeModulus == 2 ^ 16
\* the messages a broadcast channel retains for its receivers
BroadcastCapacity == 32

NodeIds == 1 .. MaxNodes

\* The actions a node can carry:
\*   hello      returns Output::Out without touching its channels
\*   relay      receives one message from every in-channel, sends one message
\*              on every out-channel, returns Output::Out
\*   err        returns Output::Err
\*   panic      panics
\*   cond_false a ConditionalNode whose condition yields false
Kinds == {"hello", "relay", "err", "panic", "cond_false"}

VARIABLES
    action,           \* the nodes the client has constructed: id -> action kind
    nodes,            \* Graph.nodes: NodeId -> the node (its action kind)
    node_count,       \* Graph.node_count
    in_degree,        \* Graph.in_degree: NodeId -> usize
    out_channels,     \* per node id: the keys of its OutChannels
    in_channels,      \* per node id: the keys of its InChannels
    chan,             \* per <<from, to>>: the messages queued in the mpsc channel
    execute_states,   \* Graph.execute_states: NodeId -> ExecState
    is_active,        \* Graph.is_active
    blocks,           \* Graph.blocks
    phase,            \* "idle" | "running" | "shutdown" | "crashed"
    tasks,            \* per spawned block: node id -> task record
    chunk,            \* run(): index of the chunk the awaiting loop is at
    joining,          \* run(): the loop is inside join_all(chunk)
    condition_flag,   \* run(): condition_flag
    errors,           \* run(): errors
    result,           \* what the last start() returned
    overflow_checks,  \* "unobserved" | "on" | "off": whether the build panics on overflow
    starts,           \* calls of start() made
    resets,           \* calls of reset() made
    sent,             \* per <<from, to>>: messages ever sent
    last,             \* the last run that ended: its result, outputs and edges
    wire,             \* the client's own send_to / recv_from / close calls: logs, last result
    bcst,             \* a broadcast channel: retained messages, sender, receivers
    allocator,        \* the two ID_ALLOCATOR statics and the threads calling alloc()
    engine,           \* the legacy DagEngine: tasks, rely graph, execute states, run
    probe,            \* ExecStates of task/state.rs a client uses directly
    yaml,             \* YamlParser::parse_tasks: the file handed in, the result
    env,              \* utils/env.rs: GLOBAL_ENV, DISABLE and the calls on them
    cli,              \* the command-line program: its file, where it is, its exit
    manager,          \* the Engine of engine/mod.rs: its Dags, their sequence, the runs
    derive            \* the dependencies! macro: the input it is given, what it resolves

vars == << action, nodes, node_count, in_degree, out_channels, in_channels, chan,
           execute_states, is_active, blocks, phase, tasks, chunk, joining,
           condition_flag, errors, result, overflow_checks, starts, resets,
           sent, last, wire, bcst, allocator, engine, probe, manager, derive, yaml, env, cli >>

\* what add_node and add_edge build
build == << action, nodes, node_count, in_degree, out_channels, in_channels >>

\* the client's call counts
client == << starts, resets >>

\* the state of what is modelled beside Graph::start
aux == << wire, bcst, allocator, engine, probe, manager, derive, yaml, env, cli >>

\* the state of the Graph and of its client
graph_vars == << build, chan, execute_states, is_active, blocks, phase, tasks,
                 chunk, joining, condition_flag, errors, result,
                 overflow_checks, sent, last, client >>

\* the state of the parser, the environment and the command-line program
more == << yaml, env, cli, manager, derive >>


Pairs == NodeIds \X NodeIds

\* f with key k set to v (HashMap::insert)
Insert(f, k, v) == [x \in (DOMAIN f) \cup {k} |-> IF x = k THEN v ELSE f[x]]

EmptyMap == [x \in {} |-> 0]

NoResult == [kind |-> "none", errs |-> <<>>]

Consumers == 1 .. MaxConsumers

\* a receiver just subscribed: next is the number of messages it is past,
\* got the values it was handed, lost the values Lagged has reported
NewReceiver == [alive |-> TRUE, next |-> 0, got |-> 0, lost |-> 0,
                res |-> "none", val |-> 0]

\* broadcast::channel: nothing sent, the sender and every receiver alive
BcstInit ==
    [tail |-> 0, buf |-> <<>>, tx |-> TRUE, sres |-> "none",
     rx |-> [c \in Consumers |-> NewReceiver]]

Contents == 1 .. MaxContent

NoCall == [op |-> "none", node |-> 0, id |-> 0, res |-> "none"]

WireInit ==
    [sent_log |-> [p \in Pairs |-> <<>>],
     recv_log |-> [p \in Pairs |-> <<>>],
     ret |-> NoCall]

Callers == 1 .. MaxCallers

\* a thread that is not inside alloc()
IdleThread == [pc |-> "idle", origin |-> 0, wraps |-> 0]

\* static ID_ALLOCATOR of task/mod.rs (AtomicUsize::new(1)) and the
\* lazy_static ID_ALLOCATOR of task/task.rs (Mutex::new(IDAllocator { id: 1 })).
\* wraps counts the times a counter went round; issued keeps the ids alloc()
\* returned, each with the wraps its increment saw: per thread for the atomic
\* allocator, in the order of the lock for the other.
AllocatorInit ==
    [atomic |-> [id |-> 1, wraps |-> 0],
     locked |-> [id |-> 1, wraps |-> 0, poisoned |-> FALSE],
     thread |-> [p \in Callers |-> IdleThread],
     issued |-> [atomic |-> [p \in Callers |-> <<>>],
                 locked |-> <<>>],
     calls |-> [atomic |-> 0, locked |-> 0],
     fatal |-> [atomic |-> FALSE, locked |-> FALSE]]

\* Graph::new() of engine/graph.rs.  adj and in_degree are Vecs: index i of
\* the source is position i + 1 here.
RelyGraphInit == [size |-> 0, nodes |-> EmptyMap, adj |-> <<>>, in_degree |-> <<>>]

\* DagEngine::new(), before run() is called: pc is where run() is, ret what it
\* returned, handles the JoinHandles in the order of the spawns, job the
\* spawned task of each id, joined the handles awaited so far
EngineInit ==
    [tasks |-> EmptyMap, rely_graph |-> RelyGraphInit,
     execute_states |-> EmptyMap, last_task_id |-> 0,
     pc |-> "new", ret |-> "none", handles |-> <<>>, job |-> EmptyMap,
     joined |-> 0, spawned |-> 0]

\* Output(None): no content
NoContent == 0

\* std::ptr::null_mut(): the output pointer before set_output
NullOutput == [null |-> TRUE, content |-> NoContent]

\* Output::new(val): Output(Some(map holding val)); the values are above 0
OutputNew(val) == [null |-> FALSE, content |-> val]

\* Output::empty(): Output(None)
OutputEmpty == [null |-> FALSE, content |-> NoContent]

\* ExecState::new of task/state.rs: not successful, a null output pointer, a
\* semaphore without permits
ExecStateNew == [success |-> FALSE, output |-> NullOutput, permits |-> 0]

\* ExecState::set_output: success is set and the pointer to the leaked box
\* stored
LegacySetOutput(state, output) ==
    [state EXCEPT !.success = TRUE, !.output = output]

\* ExecState::get_output: output.load().as_ref().unwrap() panics on the null
\* pointer; else the Option<Content> of the stored Output is cloned
LegacyGetOutput(state) ==
    IF state.output.null
    THEN [panic |-> TRUE, content |-> NoContent]
    ELSE [panic |-> FALSE, content |-> state.output.content]

\* a semaphore that lets every acquire() through
HasPermit_Always(state) == TRUE

\* Semaphore::acquire().await completes when a permit is there
HasPermit(state) == state.permits > 0

ProbeIds == 1 .. MaxStates

\* no call of get_output yet
NoGet == [called |-> FALSE, panic |-> FALSE, content |-> NoContent,
          saw |-> NullOutput]

\* ExecState::new for every state the client holds; sets counts the calls of
\* set_output, ret is what the last get_output did and the output it met
ProbeInit ==
    [k \in ProbeIds |-> [state |-> ExecStateNew, sets |-> 0, ret |-> NoGet]]

\* no error
NoError == [kind |-> "none", arg |-> ""]

\* what parse_tasks returned: Err(err) or Ok(tasks); panic when it did not
\* return; minted are the ids YamlTask::new allocated during the call
NoParse == [err |-> NoError, tasks |-> <<>>, panic |-> FALSE, minted |-> {}]

\* parse_tasks not yet called; the file is a document whose `dagrs` mapping
\* has no task yet
YamlInit ==
    [pc |-> "none", file |-> [header |-> "ok", items |-> <<>>],
     result |-> NoParse]

\* utils/env.rs before any call: GLOBAL_ENV is an empty OnceCell (cell says
\* whether the HashMap is there), DISABLE has not run.  calls counts the
\* calls of set_env and log keeps them, each with what DISABLE was; seen is
\* what the action of a task read with get_env.
EnvInit ==
    [cell |-> FALSE, map |-> EmptyMap, disabled |-> FALSE,
     calls |-> 0, log |-> <<>>, seen |-> EmptyMap]

\* the command-line program of main.rs before run_from_yaml: pc is where it
\* is, exit the exit status of the process once pc is "exited"
CliInit == [pc |-> "none", exit |-> 0]

\* Engine::default() of engine/mod.rs: no Dag, no sequence number.  calls
\* keeps the append_dag calls made, runs the Dags run so far, in order, and
\* ret what the last run_dag or run_sequential returned.
ManagerInit ==
    [dags |-> << >>, sequence |-> << >>, calls |-> <<>>, runs |-> <<>>,
     ret |-> [of |-> "none", name |-> "", value |-> <<>>], run_calls |-> 0]

\* the dependencies! macro before it is expanded: no declaration yet
DeriveInit == [pc |-> "input", input |-> <<>>, result |-> [err |-> FALSE, tasks |-> <<>>]]

\* The ids are interchangeable, so the kinds are drawn in a fixed order of
\* the kinds along the ids.
Rank(kind) ==
    CASE kind = "hello" -> 1
      [] kind = "relay" -> 2
      [] kind = "err" -> 3
      [] kind = "panic" -> 4
      [] kind = "cond_false" -> 5

Workloads ==
    {f \in [NodeIds -> Kinds] :
        \A i \in NodeIds, j \in NodeIds : i < j => Rank(f[i]) <= Rank(f[j])}

Init ==
    /\ action \in Workloads
    /\ nodes = EmptyMap
    /\ node_count = 0
    /\ in_degree = EmptyMap
    /\ out_channels = [n \in NodeIds |-> {}]
    /\ in_channels = [n \in NodeIds |-> {}]
    /\ chan = [p \in Pairs |-> <<>>]
    /\ execute_states = EmptyMap
    /\ is_active = TRUE
    /\ blocks = <<>>
    /\ phase = "idle"
    /\ tasks = <<>>
    /\ chunk = 1
    /\ joining = FALSE
    /\ condition_flag = TRUE
    /\ errors = <<>>
    /\ result = NoResult
    /\ overflow_checks = "unobserved"
    /\ starts = 0
    /\ resets = 0
    /\ sent = [p \in Pairs |-> 0]
    /\ last = [result |-> NoResult, outputs |-> EmptyMap, edges |-> {}]
    /\ wire = WireInit
    /\ bcst = BcstInit
    /\ allocator = AllocatorInit
    /\ engine = EngineInit
    /\ probe = ProbeInit
    /\ yaml = YamlInit
    /\ env = EnvInit
    /\ cli = CliInit
    /\ manager = ManagerInit
    /\ derive = DeriveInit

(***************************************************************************)
(* Graph::add_node                                                         *)
(***************************************************************************)
\* The node is stored under its id (replacing a node already stored under
\* that id, whose channel maps go with it), node_count is advanced and the
\* id's in_degree is set to 0.
AddNode(id) ==
    /\ phase = "idle"
    /\ node_count' = node_count + 1
    /\ nodes' = Insert(nodes, id, action[id])
    /\ in_degree' = Insert(in_degree, id, 0)
    /\ out_channels' = [out_channels EXCEPT ![id] = {}]
    /\ in_channels' = [in_channels EXCEPT ![id] = {}]
    /\ UNCHANGED << action, chan, execute_states, is_active, blocks, phase,
                    tasks, chunk, joining, condition_flag, errors, result,
                    overflow_checks, sent, last, client, aux >>

(***************************************************************************)
(* Graph::remove_duplicates                                                *)
(***************************************************************************)
RECURSIVE RemoveDuplicatesFrom(_, _)
RemoveDuplicatesFrom(vec, seen) ==
    IF vec = <<>> THEN <<>>
    ELSE IF Head(vec) \in seen
         THEN RemoveDuplicatesFrom(Tail(vec), seen)
         ELSE <<Head(vec)>> \o RemoveDuplicatesFrom(Tail(vec), seen \cup {Head(vec)})

RemoveDuplicates(vec) == RemoveDuplicatesFrom(vec, {})

Range(s) == {s[i] : i \in DOMAIN s}

(***************************************************************************)
(* Graph::add_edge                                                         *)
(***************************************************************************)
\* in_degree.entry(to).and_modify(|e| *e += 1).or_insert(0)
EntryBump(deg, to) ==
    IF to \in DOMAIN deg THEN [deg EXCEPT ![to] = @ + 1] ELSE Insert(deg, to, 0)

\* First loop of add_edge: the targets that get a new mpsc channel are those
\* the sender holds no out-channel for; each bumps the in_degree entry.
RECURSIVE AddEdgeDegrees(_, _, _)
AddEdgeDegrees(to_ids, have, deg) ==
    IF to_ids = <<>> THEN deg
    ELSE LET to == Head(to_ids) IN
         IF to \in have
         THEN AddEdgeDegrees(Tail(to_ids), have, deg)
         ELSE AddEdgeDegrees(Tail(to_ids), have \cup {to}, EntryBump(deg, to))

\* the targets for which the call created a channel (the keys of rx_map)
NewTargets(from_id, to_ids) == Range(to_ids) \ out_channels[from_id]

\* the declared edges: the out-channels the nodes hold
Edges == {p \in Pairs : p[2] \in out_channels[p[1]]}

\* the variant of the OutChannel from_id holds for to_id: add_edge inserts
\* OutChannel::Mpsc for every new target and never replaces an entry
ChannelKind(from_id, to_id) ==
    IF to_id \in out_channels[from_id] THEN "Mpsc" ELSE "none"

EdgeCount == Cardinality(Edges)

\* the out-channels the graph holds once add_edge(from_id, all_to_ids) is done
EdgeCountAfter(from_id, all_to_ids) ==
    EdgeCount + Cardinality(NewTargets(from_id, RemoveDuplicates(all_to_ids)))

AddEdge(from_id, all_to_ids) ==
    /\ phase = "idle"
    /\ from_id \in DOMAIN nodes
    /\ LET to_ids == RemoveDuplicates(all_to_ids)
           fresh == NewTargets(from_id, to_ids)
       IN /\ out_channels' = [out_channels EXCEPT ![from_id] = @ \cup fresh]
          /\ in_degree' = AddEdgeDegrees(to_ids, out_channels[from_id], in_degree)
          \* second loop: the receiver is stored in the target if the graph
          \* holds the target, and dropped otherwise
          /\ in_channels' = [v \in NodeIds |->
                                IF v \in fresh /\ v \in DOMAIN nodes
                                THEN in_channels[v] \cup {from_id}
                                ELSE in_channels[v]]
          /\ chan' = [p \in Pairs |->
                         IF p[1] = from_id /\ p[2] \in fresh THEN <<>> ELSE chan[p]]
    /\ UNCHANGED << action, nodes, node_count, execute_states, is_active,
                    blocks, phase, tasks, chunk, joining, condition_flag,
                    errors, result, overflow_checks, sent, last, client, aux >>

\* add_edge on a sender the graph does not hold: nodes.get_mut(..).unwrap()
AddEdgeUnknownSender(from_id) ==
    /\ phase = "idle"
    /\ from_id \notin DOMAIN nodes
    /\ phase' = "crashed"
    /\ UNCHANGED << build, chan, execute_states, is_active, blocks, tasks,
                    chunk, joining, condition_flag, errors, result,
                    overflow_checks, sent, last, client, aux >>

\* the target lists the client hands to add_edge
TargetLists == UNION {[1 .. k -> NodeIds] : k \in 1 .. MaxTargets}

(***************************************************************************)
(* Graph::reset                                                            *)
(***************************************************************************)
Reset ==
    /\ phase = "idle"
    /\ execute_states' = EmptyMap
    /\ is_active' = TRUE
    /\ resets' = resets + 1
    /\ UNCHANGED << build, chan, blocks, phase, tasks, chunk, joining,
                    condition_flag, errors, result, overflow_checks, sent,
                    last, starts, aux >>


(***************************************************************************)
(* Graph::check_loop_and_partition                                         *)
(***************************************************************************)
\* the orders in which a HashMap may hand out the keys in S
Orders(S) == {s \in [1 .. Cardinality(S) -> S] : Range(s) = S}

IsCondition(kind) == kind = "cond_false"

\* *degree -= 1 on a usize: with overflow checks the subtraction from 0
\* panics, without them it wraps
DecrementOverflows(d) == d = 0

Decrement(d) == (d - 1) % UsizeModulus

\* The inner loop over the out-channels of the popped node, in the order ord:
\* every target that has an in_degree entry is decremented and queued when it
\* reaches 0.
RECURSIVE VisitOut(_, _, _, _, _)
VisitOut(ord, deg, queue, underflow, checked) ==
    IF ord = <<>>
    THEN [deg |-> deg, queue |-> queue, underflow |-> underflow, panicked |-> FALSE]
    ELSE LET id == Head(ord) IN
         IF id \notin DOMAIN deg
         THEN VisitOut(Tail(ord), deg, queue, underflow, checked)
         ELSE IF DecrementOverflows(deg[id]) /\ checked
              THEN [deg |-> deg, queue |-> queue, underflow |-> TRUE, panicked |-> TRUE]
              ELSE LET d == Decrement(deg[id]) IN
                   VisitOut(Tail(ord), [deg EXCEPT ![id] = d],
                            IF d = 0 THEN Append(queue, id) ELSE queue,
                            underflow \/ DecrementOverflows(deg[id]), checked)

\* The while loop: pop the last node of the queue, count it, visit its
\* out-channels, add it to the current block and close the block after a
\* conditional node. The set of the results of all iteration orders.
RECURSIVE KahnLoop(_, _, _, _, _, _, _)
KahnLoop(queue, deg, processed, block, blks, underflow, checked) ==
    IF queue = <<>>
    THEN {[processed |-> processed,
           blocks |-> IF block # {} THEN Append(blks, block) ELSE blks,
           underflow |-> underflow, panicked |-> FALSE]}
    ELSE LET node_id == queue[Len(queue)]
             rest == SubSeq(queue, 1, Len(queue) - 1)
         IN IF node_id \notin DOMAIN nodes
            THEN \* self.nodes.get_mut(&node_id).unwrap()
                 {[processed |-> processed + 1, blocks |-> blks,
                   underflow |-> underflow, panicked |-> TRUE]}
            ELSE UNION {
                   LET v == VisitOut(ord, deg, rest, underflow, checked)
                       blk == block \cup {node_id}
                   IN IF v.panicked
                      THEN {[processed |-> processed + 1, blocks |-> blks,
                             underflow |-> TRUE, panicked |-> TRUE]}
                      ELSE IF IsCondition(nodes[node_id])
                           THEN KahnLoop(v.queue, v.deg, processed + 1, {},
                                         Append(blks, blk), v.underflow, checked)
                           ELSE KahnLoop(v.queue, v.deg, processed + 1, blk,
                                         blks, v.underflow, checked)
                   : ord \in Orders(out_channels[node_id]) }

\* The results the pass can have: the queue is seeded with the ids of
\* in_degree 0 in the iteration order of the map, the blocks found are pushed
\* behind the blocks the graph already holds.
CheckLoopAndPartition(checked) ==
    UNION { KahnLoop(queue, in_degree, 0, {}, blocks, FALSE, checked)
            : queue \in Orders({id \in DOMAIN in_degree : in_degree[id] = 0}) }

\* processed_count < self.node_count
\* a pass that never reports a loop
IsLoop_Never(o) == FALSE

IsLoop(o) == o.processed < node_count

(***************************************************************************)
(* ExecState and Output                                                    *)
(***************************************************************************)
\* ExecState::new(): nothing recorded yet
NewExecState == [outcome |-> "pending", output |-> "None"]

SetOutput(st, out) == [st EXCEPT !.output = out]

ExeSuccess(st) == [st EXCEPT !.outcome = "success"]

ExeFail(st) == [st EXCEPT !.outcome = "failure"]

\* Output::is_err
IsErr(out) == out = "Err"

(***************************************************************************)
(* Graph::init                                                             *)
(***************************************************************************)
\* a fresh ExecState is inserted for every node of the graph
\* an init() that gives a state only to the nodes with no predecessor
InitStates_SourcesOnly ==
    [n \in (DOMAIN execute_states) \cup {m \in DOMAIN nodes : in_degree[m] = 0} |->
        IF n \in DOMAIN nodes THEN NewExecState ELSE execute_states[n]]

InitStates ==
    [n \in (DOMAIN execute_states) \cup (DOMAIN nodes) |->
        IF n \in DOMAIN nodes THEN NewExecState ELSE execute_states[n]]

(***************************************************************************)
(* Graph::start, up to the spawning of the tasks in Graph::run             *)
(***************************************************************************)
NewTask == [pc |-> "spawned", pending |-> {}, abort |-> FALSE, ran |-> FALSE]

\* run(): one task per node of every block the graph holds
SpawnTasks(blks) == [b \in 1 .. Len(blks) |-> [n \in blks[b] |-> NewTask]]

Start ==
    /\ phase = "idle"
    /\ starts' = starts + 1
    /\ execute_states' = InitStates
    /\ \E checked \in BOOLEAN :
          /\ overflow_checks # "unobserved" => (checked <=> overflow_checks = "on")
          /\ \E o \in CheckLoopAndPartition(checked) :
                /\ overflow_checks' = IF o.underflow
                                      THEN (IF checked THEN "on" ELSE "off")
                                      ELSE overflow_checks
                /\ IF o.panicked
                   THEN /\ phase' = "crashed"
                        /\ result' = [kind |-> "panic", errs |-> <<>>]
                        /\ UNCHANGED << blocks, tasks, chunk, joining,
                                        condition_flag, errors >>
                   ELSE /\ blocks' = o.blocks
                        /\ IF IsLoop(o)
                           THEN /\ result' = [kind |-> "GraphLoopDetected", errs |-> <<>>]
                                /\ tasks' = <<>>
                                /\ UNCHANGED << phase, chunk, joining,
                                                condition_flag, errors >>
                           ELSE IF ~is_active
                           THEN /\ result' = [kind |-> "GraphNotActive", errs |-> <<>>]
                                /\ tasks' = <<>>
                                /\ UNCHANGED << phase, chunk, joining,
                                                condition_flag, errors >>
                           ELSE /\ phase' = "running"
                                /\ tasks' = SpawnTasks(o.blocks)
                                /\ chunk' = 1
                                /\ joining' = FALSE
                                /\ condition_flag' = TRUE
                                /\ errors' = <<>>
                                /\ result' = NoResult
    /\ UNCHANGED << build, chan, is_active, sent, last, resets, aux >>

(***************************************************************************)
(* The task spawned for node n of block b (the async block of Graph::run)  *)
(***************************************************************************)
TaskIds == {<<b, n>> : b \in DOMAIN tasks, n \in NodeIds}

HasTask(b, n) == b \in DOMAIN tasks /\ n \in DOMAIN tasks[b]

Finished(t) == t.pc \in {"done", "panicked", "aborted"}

\* node.lock().await: the node's mutex is held by a task that is running it
NodeLocked(n) == \E b \in DOMAIN tasks : n \in DOMAIN tasks[b] /\ tasks[b][n].pc = "running"

SetTask(b, n, t) == [tasks EXCEPT ![b][n] = t]

\* a fail-fast engine: the first failure also stops the chunks not yet joined
RecordFailure_FailFast(n) ==
    /\ execute_states' = [execute_states EXCEPT ![n] = ExeFail(SetOutput(@, "Err"))]
    /\ errors' = Append(errors, <<"ExecutionFailed", n>>)
    /\ condition_flag' = FALSE

\* out.is_err(): set_output, exe_fail, push ExecutionFailed
RecordFailure(n) ==
    /\ execute_states' = [execute_states EXCEPT ![n] = ExeFail(SetOutput(@, "Err"))]
    /\ errors' = Append(errors, <<"ExecutionFailed", n>>)
    /\ UNCHANGED condition_flag

\* otherwise: a ConditionResult(false) clears the condition flag; set_output,
\* exe_success
RecordSuccess(n, out) ==
    /\ execute_states' = [execute_states EXCEPT ![n] = ExeSuccess(SetOutput(@, out))]
    /\ condition_flag' = IF out = "ConditionResult(false)" THEN FALSE ELSE condition_flag
    /\ UNCHANGED errors

\* A panic of the action. catch_unwind wraps the closure that builds the
\* future, not the future: the unwinding leaves the task at out.await, past
\* every arm of the match. Nothing is recorded and no channel is closed.
RecordPanic(n) ==
    UNCHANGED << execute_states, errors, condition_flag >>

\* what the action of a node that uses no channel returns
ActionOutput(kind) ==
    CASE kind = "hello" -> "Out"
      [] kind = "err" -> "Err"
      [] kind = "cond_false" -> "ConditionResult(false)"

\* The task of a node whose action awaits nothing: it takes the node's lock,
\* runs the action and records its result in one poll.
TaskRun(b, n) ==
    /\ phase \in {"running", "shutdown"}
    /\ HasTask(b, n)
    /\ tasks[b][n].pc = "spawned"
    /\ nodes[n] # "relay"
    /\ ~NodeLocked(n)
    /\ IF nodes[n] = "panic"
       THEN /\ RecordPanic(n)
            /\ tasks' = SetTask(b, n, [tasks[b][n] EXCEPT !.pc = "panicked",
                                                          !.ran = TRUE])
       ELSE /\ IF IsErr(ActionOutput(nodes[n]))
               THEN RecordFailure(n)
               ELSE RecordSuccess(n, ActionOutput(nodes[n]))
            /\ tasks' = SetTask(b, n, [tasks[b][n] EXCEPT !.pc = "done",
                                                          !.ran = TRUE])
    /\ UNCHANGED << build, chan, is_active, blocks, phase, chunk, joining,
                    result, overflow_checks, sent, last, client, aux >>

\* The task of a relay node takes the node's lock and enters the action,
\* which is to receive from every in-channel of the node.
RelayBegin(b, n) ==
    /\ phase \in {"running", "shutdown"}
    /\ HasTask(b, n)
    /\ tasks[b][n].pc = "spawned"
    /\ nodes[n] = "relay"
    /\ ~NodeLocked(n)
    /\ tasks' = SetTask(b, n, [tasks[b][n] EXCEPT !.pc = "running", !.ran = TRUE,
                                                  !.pending = in_channels[n]])
    /\ UNCHANGED << build, chan, execute_states, is_active, blocks, phase,
                    chunk, joining, condition_flag, errors, result,
                    overflow_checks, sent, last, client, aux >>

Min(S) == CHOOSE x \in S : \A y \in S : x <= y

\* the sending half of the channel from -> to is alive while the sender's
\* OutChannels holds it, the receiving half while the receiver's InChannels does
SenderAlive(from, to) == to \in out_channels[from]

ReceiverAlive(from, to) == from \in in_channels[to]

\* a recv_from that does not wait: an empty channel reads as closed
RecvFrom_NoWait(n, id) ==
    IF id \notin in_channels[n] THEN "ChannelNExist"
    ELSE IF chan[<<id, n>>] # <<>> THEN "Ok"
    ELSE "Closed"

\* InChannels::recv_from(id) on an InChannel::Mpsc: the result of the call,
\* "Pending" while it has to wait
RecvFrom(n, id) ==
    IF id \notin in_channels[n] THEN "ChannelNExist"
    ELSE IF chan[<<id, n>>] # <<>> THEN "Ok"
    ELSE IF ~SenderAlive(id, n) THEN "Closed"
    ELSE "Pending"

\* The relay action receives from its in-channels in the order of their ids;
\* an error of the receive ends the wait for that channel.
RelayRecv(b, n) ==
    /\ phase \in {"running", "shutdown"}
    /\ HasTask(b, n)
    /\ tasks[b][n].pc = "running"
    /\ tasks[b][n].pending # {}
    /\ LET id == Min(tasks[b][n].pending) IN
          /\ RecvFrom(n, id) # "Pending"
          /\ chan' = IF RecvFrom(n, id) = "Ok"
                     THEN [chan EXCEPT ![<<id, n>>] = Tail(@)]
                     ELSE chan
          /\ tasks' = SetTask(b, n, [tasks[b][n] EXCEPT !.pending = @ \ {id}])
    /\ UNCHANGED << build, execute_states, is_active, blocks, phase, chunk,
                    joining, condition_flag, errors, result, overflow_checks,
                    sent, last, client, aux >>

\* OutChannels::send_to(id, content) on an OutChannel::Mpsc: the result of
\* the call, "Pending" while the channel is full
SendTo(n, id) ==
    IF id \notin out_channels[n] THEN "ChannelNExist"
    ELSE IF ~ReceiverAlive(n, id) THEN "MpscError"
    ELSE IF Len(chan[<<n, id>>]) >= ChannelCapacity THEN "Pending"
    ELSE "Ok"

\* Having received, the relay action sends one message on every out-channel
\* (a failed send is ignored) and returns Output::Out.
RelayFinish(b, n) ==
    /\ phase \in {"running", "shutdown"}
    /\ HasTask(b, n)
    /\ tasks[b][n].pc = "running"
    /\ tasks[b][n].pending = {}
    /\ \A id \in out_channels[n] : SendTo(n, id) # "Pending"
    /\ chan' = [p \in Pairs |->
                   IF p[1] = n /\ SendTo(n, p[2]) = "Ok" THEN Append(chan[p], n)
                   ELSE chan[p]]
    /\ sent' = [p \in Pairs |->
                   IF p[1] = n /\ SendTo(n, p[2]) = "Ok" THEN sent[p] + 1
                   ELSE sent[p]]
    /\ RecordSuccess(n, "Out")
    /\ tasks' = SetTask(b, n, [tasks[b][n] EXCEPT !.pc = "done"])
    /\ UNCHANGED << build, is_active, blocks, phase, chunk, joining, result,
                    overflow_checks, last, client, aux >>

\* how often the action of node n was invoked by the tasks of the last start()
Invoked(n) == Cardinality({b \in DOMAIN tasks : n \in DOMAIN tasks[b] /\ tasks[b][n].ran})

\* JoinHandle::abort (and the drop of the runtime) cancels a task at an await
\* point: its future is dropped, which releases the node's lock.
TaskCancel(b, n) ==
    /\ phase \in {"running", "shutdown"}
    /\ HasTask(b, n)
    /\ tasks[b][n].abort
    /\ ~Finished(tasks[b][n])
    /\ tasks' = SetTask(b, n, [tasks[b][n] EXCEPT !.pc = "aborted"])
    /\ UNCHANGED << build, chan, execute_states, is_active, blocks, phase,
                    chunk, joining, condition_flag, errors, result,
                    overflow_checks, sent, last, client, aux >>

(***************************************************************************)
(* Graph::run after the spawning: the loop awaiting the chunks, the result *)
(***************************************************************************)
AbortAll(chunk_tasks) ==
    [n \in DOMAIN chunk_tasks |->
        IF Finished(chunk_tasks[n]) THEN chunk_tasks[n]
        ELSE [chunk_tasks[n] EXCEPT !.abort = TRUE]]

\* One turn of the loop reads the condition flag: if it is false the handles
\* of the chunk are aborted and the loop goes on, otherwise the chunk is joined.
ChunkCheck ==
    /\ phase = "running"
    /\ ~joining
    /\ chunk <= Len(tasks)
    /\ IF condition_flag = FALSE
       THEN /\ tasks' = [tasks EXCEPT ![chunk] = AbortAll(@)]
            /\ chunk' = chunk + 1
            /\ UNCHANGED joining
       ELSE /\ joining' = TRUE
            /\ UNCHANGED << tasks, chunk >>
    /\ UNCHANGED << build, chan, execute_states, is_active, blocks, phase,
                    condition_flag, errors, result, overflow_checks, sent,
                    last, client, aux >>

\* join_all(chunk) is over when every task of the chunk has ended
ChunkJoined ==
    /\ phase = "running"
    /\ joining
    /\ \A n \in DOMAIN tasks[chunk] : Finished(tasks[chunk][n])
    /\ joining' = FALSE
    /\ chunk' = chunk + 1
    /\ UNCHANGED << build, chan, execute_states, is_active, blocks, phase,
                    tasks, condition_flag, errors, result, overflow_checks,
                    sent, last, client, aux >>

\* the value run() returns for the errors pushed
RunResult(errs) ==
    IF errs = <<>> THEN [kind |-> "Ok", errs |-> <<>>]
    ELSE IF Len(errs) = 1 THEN [kind |-> errs[1][1], errs |-> errs]
    ELSE [kind |-> "MultipleErrors", errs |-> errs]

\* After the loop run() clears is_active and computes what it returns; the
\* runtime is then dropped, which cancels every task that has not ended.
RunReturn ==
    /\ phase = "running"
    /\ ~joining
    /\ chunk > Len(tasks)
    /\ is_active' = FALSE
    /\ result' = RunResult(errors)
    /\ tasks' = [b \in DOMAIN tasks |-> AbortAll(tasks[b])]
    /\ phase' = "shutdown"
    /\ UNCHANGED << build, chan, execute_states, blocks, chunk, joining,
                    condition_flag, errors, overflow_checks, sent, last,
                    client, aux >>

AllEnded == \A b \in DOMAIN tasks : \A n \in DOMAIN tasks[b] : Finished(tasks[b][n])

\* Graph::get_outputs: the Output stored for every key of execute_states
GetOutputs == [n \in DOMAIN execute_states |-> execute_states[n].output]

\* start() returns to the client once the runtime is gone
StartReturn ==
    /\ phase = "shutdown"
    /\ AllEnded
    /\ phase' = "idle"
    /\ last' = [result |-> result, outputs |-> GetOutputs, edges |-> Edges]
    /\ UNCHANGED << build, chan, execute_states, is_active, blocks, tasks,
                    chunk, joining, condition_flag, errors, result,
                    overflow_checks, sent, client, aux >>

(***************************************************************************)
(* The channel collections used directly: OutChannels::send_to,            *)
(* InChannels::recv_from and close, called on the channels of node n       *)
(***************************************************************************)
\* a receive that hands out the newest message
MpscRecv_Newest(queue) ==
    [content |-> queue[Len(queue)], rest |-> SubSeq(queue, 1, Len(queue) - 1)]

\* mpsc::Receiver::recv on a channel that holds a message: the oldest one
MpscRecv(queue) == [content |-> Head(queue), rest |-> Tail(queue)]

\* a close that leaves the entry in the map
CloseEntry_Kept(channels, id) == channels

\* close(id): self.0.remove(id)
CloseEntry(channels, id) == channels \ {id}

Returned(op, n, id, res) ==
    [wire EXCEPT !.ret = [op |-> op, node |-> n, id |-> id, res |-> res]]

\* OutChannels::send_to(id, content) called on the out-channels of n; the
\* call is over when the channel has room
SendToCall(n, id, content) ==
    /\ phase = "idle"
    /\ n \in DOMAIN nodes
    /\ SendTo(n, id) # "Pending"
    /\ IF SendTo(n, id) = "Ok"
       THEN /\ chan' = [chan EXCEPT ![<<n, id>>] = Append(@, content)]
            /\ sent' = [sent EXCEPT ![<<n, id>>] = @ + 1]
            /\ wire' = [Returned("send_to", n, id, "Ok") EXCEPT
                           !.sent_log[<<n, id>>] = Append(@, content)]
       ELSE /\ wire' = Returned("send_to", n, id, SendTo(n, id))
            /\ UNCHANGED << chan, sent >>
    /\ UNCHANGED << build, execute_states, is_active, blocks, phase, tasks,
                    chunk, joining, condition_flag, errors, result,
                    overflow_checks, last, client, bcst, allocator, engine, probe, more >>

\* InChannels::recv_from(id) called on the in-channels of n; the call is over
\* when a message is there or the channel is closed
RecvFromCall(n, id) ==
    /\ phase = "idle"
    /\ n \in DOMAIN nodes
    /\ RecvFrom(n, id) # "Pending"
    /\ IF RecvFrom(n, id) = "Ok"
       THEN /\ chan' = [chan EXCEPT ![<<id, n>>] = MpscRecv(@).rest]
            /\ wire' = [Returned("recv_from", n, id, "Ok") EXCEPT
                           !.recv_log[<<id, n>>] =
                               Append(@, MpscRecv(chan[<<id, n>>]).content)]
       ELSE /\ wire' = Returned("recv_from", n, id, RecvFrom(n, id))
            /\ UNCHANGED chan
    /\ UNCHANGED << build, execute_states, is_active, blocks, phase, tasks,
                    chunk, joining, condition_flag, errors, result,
                    overflow_checks, sent, last, client, bcst, allocator, engine, probe, more >>

\* InChannels::close(id) on the in-channels of n. It takes the channel's
\* mutex with blocking_lock(), which panics on a thread that is driving a
\* runtime (in_runtime); otherwise the receiver is closed and the entry
\* removed, and the messages still queued go with the receiver.
InChannelsClose(n, id, in_runtime) ==
    /\ phase = "idle"
    /\ n \in DOMAIN nodes
    /\ IF id \notin in_channels[n]
       THEN /\ wire' = Returned("in_close", n, id, "Ok")
            /\ UNCHANGED << in_channels, chan >>
       ELSE IF in_runtime
       THEN /\ wire' = Returned("in_close", n, id, "panic")
            /\ UNCHANGED << in_channels, chan >>
       ELSE /\ wire' = Returned("in_close", n, id, "Ok")
            /\ in_channels' = [in_channels EXCEPT ![n] = CloseEntry(@, id)]
            /\ chan' = [chan EXCEPT ![<<id, n>>] = <<>>]
    /\ UNCHANGED << action, nodes, node_count, in_degree, out_channels,
                    execute_states, is_active, blocks, phase, tasks, chunk,
                    joining, condition_flag, errors, result, overflow_checks,
                    sent, last, client, bcst, allocator, engine, probe, more >>

\* OutChannels::close(id) on the out-channels of n: the entry, and with it
\* the sender, is removed
OutChannelsClose(n, id) ==
    /\ phase = "idle"
    /\ n \in DOMAIN nodes
    /\ wire' = Returned("out_close", n, id, "Ok")
    /\ out_channels' = [out_channels EXCEPT ![n] = CloseEntry(@, id)]
    /\ UNCHANGED << action, nodes, node_count, in_degree, in_channels, chan,
                    execute_states, is_active, blocks, phase, tasks, chunk,
                    joining, condition_flag, errors, result, overflow_checks,
                    sent, last, client, bcst, allocator, engine, probe, more >>

\* the messages the client's send_to calls have delivered
WireSends ==
    LET RECURSIVE Sum(_)
        Sum(S) == IF S = {} THEN 0
                  ELSE LET p == CHOOSE q \in S : TRUE
                       IN Len(wire.sent_log[p]) + Sum(S \ {p})
    IN Sum(Pairs)

(***************************************************************************)
(* OutChannel::Bcst and InChannel::Bcst: a tokio broadcast channel         *)
(***************************************************************************)
\* broadcast::Sender::send is not async: it fails when no receiver is left
\* and succeeds otherwise, whatever the receivers have read
BcstSendResult(b) ==
    IF \A c \in Consumers : ~b.rx[c].alive THEN "BcstError" ELSE "Ok"

\* the channel retains the newest BroadcastCapacity messages
Retain(buf) ==
    IF Len(buf) > BroadcastCapacity
    THEN SubSeq(buf, Len(buf) - BroadcastCapacity + 1, Len(buf))
    ELSE buf

\* OutChannel::send on the broadcast sender; the i-th message carries i
BcstSend ==
    /\ bcst.tx
    /\ IF BcstSendResult(bcst) = "Ok"
       THEN bcst' = [bcst EXCEPT !.tail = @ + 1,
                                 !.buf = Retain(Append(@, bcst.tail + 1)),
                                 !.sres = "Ok"]
       ELSE bcst' = [bcst EXCEPT !.sres = "BcstError"]
    /\ UNCHANGED << build, chan, execute_states, is_active, blocks, phase,
                    tasks, chunk, joining, condition_flag, errors, result,
                    overflow_checks, sent, last, client, wire, allocator, engine, probe, more >>

\* the position of the oldest message the channel still holds
Oldest(b) == b.tail - Len(b.buf)

\* a receiver that reports one lost message however many it has missed
BcstRecvResult_LagOne(b, c) ==
    LET r == b.rx[c] IN
    IF r.next < Oldest(b)
    THEN [r EXCEPT !.res = "Lagged", !.val = 1, !.lost = @ + 1,
                   !.next = Oldest(b)]
    ELSE IF r.next < b.tail
    THEN [r EXCEPT !.res = "Ok", !.val = b.buf[r.next - Oldest(b) + 1],
                   !.got = @ + 1, !.next = @ + 1]
    ELSE [r EXCEPT !.res = "Closed", !.val = 0]

\* broadcast::Receiver::recv as InChannel::recv maps it: Lagged(n) when the
\* receiver's next message was overwritten, the receiver then stands at the
\* oldest message held; the next message otherwise; Closed when nothing is
\* left and the sender is gone
BcstRecvResult(b, c) ==
    LET r == b.rx[c] IN
    IF r.next < Oldest(b)
    THEN [r EXCEPT !.res = "Lagged", !.val = Oldest(b) - r.next,
                   !.lost = @ + (Oldest(b) - r.next), !.next = Oldest(b)]
    ELSE IF r.next < b.tail
    THEN [r EXCEPT !.res = "Ok", !.val = b.buf[r.next - Oldest(b) + 1],
                   !.got = @ + 1, !.next = @ + 1]
    ELSE [r EXCEPT !.res = "Closed", !.val = 0]

\* InChannel::recv on the broadcast receiver c; the call waits while there
\* is nothing to read and the sender is alive
BcstRecv(c) ==
    /\ bcst.rx[c].alive
    /\ bcst.rx[c].next < bcst.tail \/ ~bcst.tx
    /\ bcst' = [bcst EXCEPT !.rx[c] = BcstRecvResult(bcst, c)]
    /\ UNCHANGED << build, chan, execute_states, is_active, blocks, phase,
                    tasks, chunk, joining, condition_flag, errors, result,
                    overflow_checks, sent, last, client, wire, allocator, engine, probe, more >>

\* OutChannels::close drops the entry that holds the sender
BcstSenderDrop ==
    /\ bcst.tx
    /\ bcst' = [bcst EXCEPT !.tx = FALSE]
    /\ UNCHANGED << build, chan, execute_states, is_active, blocks, phase,
                    tasks, chunk, joining, condition_flag, errors, result,
                    overflow_checks, sent, last, client, wire, allocator, engine, probe, more >>

\* InChannels::close drops the entry that holds the receiver c
\* (InChannel::close itself does nothing for a broadcast receiver)
BcstReceiverDrop(c) ==
    /\ bcst.rx[c].alive
    /\ bcst' = [bcst EXCEPT !.rx[c].alive = FALSE]
    /\ UNCHANGED << build, chan, execute_states, is_active, blocks, phase,
                    tasks, chunk, joining, condition_flag, errors, result,
                    overflow_checks, sent, last, client, wire, allocator, engine, probe, more >>

(***************************************************************************)
(* IDAllocator: the atomic one of task/mod.rs and dagrs_core, the mutex one *)
(* of task/task.rs                                                         *)
(***************************************************************************)
\* the values of the id counter: a usize of IdBits bits
IdModulus == 2 ^ IdBits

\* a fetch_add that hands back the value it has just stored
FetchAdd_ReturnsNew(id) ==
    [origin |-> (id + 1) % IdModulus, id |-> (id + 1) % IdModulus]

\* AtomicUsize::fetch_add(1, SeqCst): one indivisible step that returns the
\* previous value and stores the next one, wrapping around on overflow
FetchAdd(id) == [origin |-> id, id |-> (id + 1) % IdModulus]

UnchangedByAlloc ==
    UNCHANGED << build, chan, execute_states, is_active, blocks, phase,
                 tasks, chunk, joining, condition_flag, errors, result,
                 sent, last, client, wire, bcst, engine, probe, more >>

\* alloc(), first half: let origin = self.id.fetch_add(1, SeqCst)
AllocFetchAdd(p) ==
    /\ allocator.thread[p].pc = "idle"
    /\ LET r == FetchAdd(allocator.atomic.id)
           wrapped == r.id < r.origin
       IN allocator' =
            [allocator EXCEPT
                !.atomic = [id |-> r.id,
                            wraps |-> @.wraps + (IF wrapped THEN 1 ELSE 0)],
                !.thread[p] = [pc |-> "fetched", origin |-> r.origin,
                               wraps |-> allocator.atomic.wraps],
                !.calls.atomic = @ + 1]
    /\ UNCHANGED overflow_checks
    /\ UnchangedByAlloc

\* alloc(), second half: if origin > self.id.load(Relaxed) { panic!("Too many
\* tasks.") } else { origin }.  The panic ends the calling thread.
AllocCheck(p) ==
    /\ allocator.thread[p].pc = "fetched"
    /\ LET t == allocator.thread[p]
       IN IF t.origin > allocator.atomic.id
          THEN allocator' = [allocator EXCEPT !.thread[p].pc = "dead",
                                              !.fatal.atomic = TRUE]
          ELSE allocator' =
                 [allocator EXCEPT
                     !.thread[p] = IdleThread,
                     !.issued.atomic[p] =
                         Append(@, [id |-> t.origin, wraps |-> t.wraps])]
    /\ UNCHANGED overflow_checks
    /\ UnchangedByAlloc

\* ID_ALLOCATOR.lock().unwrap().alloc() of task/task.rs, the whole of it under
\* the mutex: self.id += 1; self.id - 1.  A poisoned mutex makes unwrap()
\* panic; the addition panics at the top of the range in a build with overflow
\* checks, with the lock held, and wraps to 0 in a build without; there the
\* subtraction that follows wraps as well.
LockedAlloc(p) ==
    /\ allocator.thread[p].pc = "idle"
    /\ LET l == allocator.locked
           overflow == l.id + 1 >= IdModulus
       IN \E checked \in BOOLEAN :
            /\ overflow_checks # "unobserved" => (checked <=> overflow_checks = "on")
            /\ IF l.poisoned
               THEN /\ allocator' = [allocator EXCEPT !.thread[p].pc = "dead",
                                                      !.calls.locked = @ + 1]
                    /\ UNCHANGED overflow_checks
               ELSE IF overflow /\ checked
               THEN /\ allocator' = [allocator EXCEPT !.thread[p].pc = "dead",
                                                      !.locked.poisoned = TRUE,
                                                      !.fatal.locked = TRUE,
                                                      !.calls.locked = @ + 1]
                    /\ overflow_checks' = "on"
               ELSE LET next == (l.id + 1) % IdModulus
                        underflow == next = 0
                    IN /\ allocator' =
                            [allocator EXCEPT
                                !.locked.id = next,
                                !.locked.wraps = @ + (IF overflow THEN 1 ELSE 0),
                                !.issued.locked =
                                    Append(@, [id |-> (next + IdModulus - 1) % IdModulus,
                                               wraps |-> l.wraps]),
                                !.calls.locked = @ + 1]
                       /\ overflow_checks' = IF overflow \/ underflow
                                             THEN "off" ELSE overflow_checks
    /\ UnchangedByAlloc

(***************************************************************************)
(* The legacy DagEngine (engine/dag_engine.rs), its rely graph             *)
(* (engine/graph.rs) and the semaphores of task/state.rs                   *)
(***************************************************************************)
EngineIds == 1 .. MaxTasks

PredecessorLists == UNION {[1 .. k -> EngineIds] : k \in 0 .. MaxPredecessors}

\* what a task's action does: return Ok(Output::new(..)), return
\* Ok(Output::empty()), or return Err
EngineKinds == {"ok", "empty", "err"}

UnchangedByEngine ==
    UNCHANGED << build, chan, execute_states, is_active, blocks, phase,
                 tasks, chunk, joining, condition_flag, errors, result,
                 overflow_checks, sent, last, client, wire, bcst, allocator,
                 probe, manager, derive, yaml, cli >>

(***************************************************************************)
(* utils/env.rs: the global environment variables                          *)
(***************************************************************************)
EnvKeys == {"v1", "v2"}

\* the types T of set_env::<T> and get_env::<T>
EnvTypes == {"i32", "usize"}

EnvValues == 1 .. MaxEnvValue

\* Option<T>
EnvNone == [some |-> FALSE, val |-> 0]

EnvSome(val) == [some |-> TRUE, val |-> val]

\* a set_env that does not look at DISABLE
SetEnvResult_Unguarded(e, key, type, val) ==
    [e EXCEPT !.cell = TRUE,
              !.map = Insert(@, key, [type |-> type, val |-> val])]

\* set_env::<T>(key, val): if !DISABLE.is_completed(), a Variable that holds
\* val alone replaces the one of the key, in a map that is created if absent
SetEnvResult(e, key, type, val) ==
    IF ~ e.disabled
    THEN [e EXCEPT !.cell = TRUE,
                   !.map = Insert(@, key, [type |-> type, val |-> val])]
    ELSE e

\* get_env::<T>(key): None without the map or the key;
\* variable.clone().remove::<T>() is the value if its type is T
GetEnv(e, key, type) ==
    IF ~ e.cell THEN EnvNone
    ELSE IF key \notin DOMAIN e.map THEN EnvNone
    ELSE IF e.map[key].type = type THEN EnvSome(e.map[key].val)
    ELSE EnvNone

\* what get_env returns for every key and type
GetEnvAll(e) ==
    [key \in EnvKeys |-> [type \in EnvTypes |-> GetEnv(e, key, type)]]

\* env_unchangeable(): DISABLE.call_once(..)
EnvUnchangeable(e) == [e EXCEPT !.disabled = TRUE]

\* set_env(key, val) by the caller of run() before or after it, or by the
\* action of a task
SetEnv(key, type, val) ==
    /\ env.calls < MaxSetEnvs
    /\ env' = [SetEnvResult(env, key, type, val) EXCEPT
                  !.calls = env.calls + 1,
                  !.log = Append(env.log, [key |-> key, type |-> type,
                                           val |-> val,
                                           disabled |-> env.disabled])]
    /\ UNCHANGED << graph_vars, wire, bcst, allocator, engine, probe, manager, derive, yaml,
                    cli >>

\* DagEngine::add_tasks(vec![task]): self.tasks.insert(task.id(), ...)
EngineAddTask(id, predecessors, kind) ==
    /\ engine.pc = "new"
    /\ engine' = [engine EXCEPT
                    !.tasks = Insert(@, id, [predecessors |-> predecessors,
                                             kind |-> kind])]
    /\ UNCHANGED env
    /\ UnchangedByEngine

\* Vec::resize(n, x)
Resize(v, n, x) == [i \in 1 .. n |-> IF i <= Len(v) THEN v[i] ELSE x]

\* Graph::set_graph_size
RelySetGraphSize(g, size) ==
    [g EXCEPT !.size = size,
              !.adj = Resize(@, size, <<>>),
              !.in_degree = Resize(@, size, 0)]

\* BiMap::insert(l, r): the pairs that hold l or r go, then <<l, r>> is put in
BiInsert(m, l, r) ==
    LET kept == {k \in DOMAIN m : k # l /\ m[k] # r}
    IN [k \in kept \cup {l} |-> IF k = l THEN r ELSE m[k]]

\* Graph::add_node of engine/graph.rs: index = self.nodes.len()
RelyAddNode(g, id) ==
    [g EXCEPT !.nodes = BiInsert(@, id, Cardinality(DOMAIN @) + 1)]

\* Graph::add_edge of engine/graph.rs
RelyAddEdge(g, v, w) ==
    [g EXCEPT !.adj[v] = Append(@, w), !.in_degree[w] = @ + 1]

\* Graph::find_id_by_index
FindIdByIndex(g, index) == CHOOSE id \in DOMAIN g.nodes : g.nodes[id] = index

\* an out-degree that counts each successor once
GetNodeOutDegree_Distinct(g, id) ==
    IF id \in DOMAIN g.nodes THEN Cardinality(Range(g.adj[g.nodes[id]])) ELSE 0

\* Graph::get_node_out_degree
GetNodeOutDegree(g, id) ==
    IF id \in DOMAIN g.nodes THEN Len(g.adj[g.nodes[id]]) ELSE 0

\* create_graph, "Add Node": add_node for every task, in the map's order
RECURSIVE AddNodes(_, _)
AddNodes(g, ids) ==
    IF ids = <<>> THEN g ELSE AddNodes(RelyAddNode(g, Head(ids)), Tail(ids))

\* the <<predecessor, task>> pairs in the order create_graph comes to them
RECURSIVE RelyPairs(_)
RelyPairs(ids) ==
    IF ids = <<>>
    THEN <<>>
    ELSE LET id == Head(ids)
             predecessors == engine.tasks[id].predecessors
         IN [i \in 1 .. Len(predecessors) |-> <<predecessors[i], id>>]
              \o RelyPairs(Tail(ids))

\* create_graph, "Form Graph": an edge per pair, up to the first predecessor
\* that is no task of the engine (RelyTaskIllegal)
RECURSIVE FormGraph(_, _)
FormGraph(g, pairs) ==
    IF pairs = <<>>
    THEN [graph |-> g, err |-> FALSE]
    ELSE LET rely_task_id == Head(pairs)[1]
             id == Head(pairs)[2]
         IN IF rely_task_id \notin DOMAIN g.nodes
            THEN [graph |-> g, err |-> TRUE]
            ELSE FormGraph(RelyAddEdge(g, g.nodes[rely_task_id], g.nodes[id]),
                           Tail(pairs))

\* DagEngine::create_graph, the map handing out its keys in the given order
CreateGraph(order) ==
    FormGraph(AddNodes(RelySetGraphSize(engine.rely_graph, Len(order)), order),
              RelyPairs(order))

\* topo_sort, the closure run over adj[v]: in_degree[index] -= 1, and index is
\* pushed when its degree reaches 0
RECURSIVE Relax(_, _, _)
Relax(targets, in_deg, queue) ==
    IF targets = <<>>
    THEN [in_degree |-> in_deg, queue |-> queue]
    ELSE LET index == Head(targets)
             d == in_deg[index] - 1
         IN Relax(Tail(targets), [in_deg EXCEPT ![index] = d],
                  IF d = 0 THEN Append(queue, index) ELSE queue)

\* topo_sort, the while loop: queue.pop() takes the last index pushed
RECURSIVE TopoLoop(_, _, _, _)
TopoLoop(g, queue, in_deg, sequence) ==
    IF queue = <<>>
    THEN sequence
    ELSE LET v == queue[Len(queue)]
             r == Relax(g.adj[v], in_deg, SubSeq(queue, 1, Len(queue) - 1))
         IN TopoLoop(g, r.queue, r.in_degree, Append(sequence, v))

\* a first pass that pushes every index
ZeroDegree_All(in_deg) == [i \in 1 .. Len(in_deg) |-> i]

\* topo_sort, the first pass: the indices of in-degree 0, in ascending order
ZeroDegree(in_deg) ==
    SelectSeq([i \in 1 .. Len(in_deg) |-> i], LAMBDA i : in_deg[i] = 0)

\* a topo_sort that takes a graph without a node of in-degree 0 for a loop
TopoSort_NeedsSource(g) ==
    LET sequence == TopoLoop(g, ZeroDegree(g.in_degree), g.in_degree, <<>>)
    IN IF ZeroDegree(g.in_degree) = <<>> \/ Len(sequence) < g.size
       THEN [some |-> FALSE, sequence |-> <<>>]
       ELSE [some |-> TRUE, sequence |-> sequence]

\* Graph::topo_sort: None when count < self.size, else Some(sequence)
TopoSort(g) ==
    LET sequence == TopoLoop(g, ZeroDegree(g.in_degree), g.in_degree, <<>>)
    IN IF Len(sequence) < g.size
       THEN [some |-> FALSE, sequence |-> <<>>]
       ELSE [some |-> TRUE, sequence |-> sequence]

\* the task execute_task spawns for id: it waits for predecessors[at] next
\* released counts the permits it has added to its semaphore
SpawnedJob(g, id) ==
    [pc |-> "waiting", at |-> 1, inputs |-> <<>>, complete |-> FALSE,
     out_degree |-> GetNodeOutDegree(g, id), released |-> 0]

\* DagEngine::run up to the first handle.await: create_graph, then check_dag
\* sorts, returns true at once for an empty sequence, and else sets up the
\* execute states and spawns one task per id of the sequence
EngineRun ==
    /\ engine.pc = "new"
    /\ \E order \in Orders(DOMAIN engine.tasks) :
          LET c == CreateGraph(order)
              t == TopoSort(c.graph)
              seq == [i \in 1 .. Len(t.sequence) |->
                         FindIdByIndex(c.graph, t.sequence[i])]
          IN IF c.err
             THEN engine' = [engine EXCEPT !.rely_graph = c.graph,
                                           !.pc = "returned",
                                           !.ret = "RelyTaskIllegal"]
             ELSE IF ~ t.some
             THEN engine' = [engine EXCEPT !.rely_graph = c.graph,
                                           !.pc = "returned",
                                           !.ret = "false"]
             ELSE IF seq = <<>>
             THEN engine' = [engine EXCEPT !.rely_graph = c.graph,
                                           !.pc = "returned",
                                           !.ret = "true"]
             ELSE engine' =
                    [engine EXCEPT
                        !.rely_graph = c.graph,
                        !.execute_states = [id \in Range(seq) |-> ExecStateNew],
                        !.last_task_id = seq[Len(seq)],
                        !.handles = seq,
                        !.job = [id \in Range(seq) |-> SpawnedJob(c.graph, id)],
                        !.spawned = Len(seq),
                        !.pc = "joining"]
    /\ \/ /\ engine'.pc = "joining"
          /\ env' = EnvUnchangeable(env)
       \/ /\ engine'.pc # "joining"
          /\ UNCHANGED env
    /\ UnchangedByEngine

\* the spawned task, one turn of "for wait_for in wait_for_input":
\* acquire_permits().await takes a permit of the predecessor's semaphore and
\* forgets it; get_output reads what the predecessor stored, and the content
\* is pushed to inputs if there is one.  A panic of get_output ends the task.
EngineAcquire(id) ==
    /\ engine.pc = "joining"
    /\ id \in DOMAIN engine.job
    /\ LET j == engine.job[id]
           predecessors == engine.tasks[id].predecessors
       IN /\ j.pc = "waiting"
          /\ j.at <= Len(predecessors)
          /\ LET wait_for == engine.execute_states[predecessors[j.at]]
                 got == LegacyGetOutput(wait_for)
             IN /\ HasPermit(wait_for)
                /\ engine' =
                     [engine EXCEPT
                         !.execute_states[predecessors[j.at]].permits = @ - 1,
                         !.job[id].at = @ + 1,
                         !.job[id].pc = IF got.panic THEN "panicked" ELSE @,
                         !.job[id].inputs =
                             IF got.panic \/ got.content = NoContent
                             THEN @ ELSE Append(@, got.content)]
    /\ UNCHANGED env
    /\ UnchangedByEngine

\* the spawned task once it has waited for every predecessor: the action
\* runs, and reads the environment with get_env; on Ok set_output stores its output, on Err nothing is stored and the
\* task ends with (false, None)
EngineExecute(id) ==
    /\ engine.pc = "joining"
    /\ id \in DOMAIN engine.job
    /\ LET j == engine.job[id]
           kind == engine.tasks[id].kind
       IN /\ j.pc = "waiting"
          /\ j.at > Len(engine.tasks[id].predecessors)
          /\ IF kind = "err"
             THEN engine' = [engine EXCEPT !.job[id].pc = "finished"]
             ELSE engine' =
                    [engine EXCEPT
                        !.execute_states[id] =
                            LegacySetOutput(@, IF kind = "ok" THEN OutputNew(id)
                                               ELSE OutputEmpty),
                        !.job[id].pc = "stored"]
    /\ env' = [env EXCEPT !.seen = Insert(@, id, [calls |-> env.calls,
                                                  vals |-> GetEnvAll(env)])]
    /\ UnchangedByEngine

\* the spawned task after set_output: add_permits(task_out_degree), and the
\* task ends with (true, ..)
EngineAddPermits(id) ==
    /\ engine.pc = "joining"
    /\ id \in DOMAIN engine.job
    /\ LET j == engine.job[id]
       IN /\ j.pc = "stored"
          /\ engine' =
               [engine EXCEPT
                   !.execute_states[id].permits = @ + j.out_degree,
                   !.job[id].released = @ + j.out_degree,
                   !.job[id].pc = "finished",
                   !.job[id].complete = TRUE]
    /\ UNCHANGED env
    /\ UnchangedByEngine

\* check_dag, "for handle in handles": handle.await of the next handle; a
\* task that did not complete, or that panicked (JoinError), makes the
\* engine call std::process::abort()
EngineJoin ==
    /\ engine.pc = "joining"
    /\ engine.joined < Len(engine.handles)
    /\ LET j == engine.job[engine.handles[engine.joined + 1]]
       IN /\ j.pc \in {"finished", "panicked"}
          /\ IF j.complete
             THEN engine' = [engine EXCEPT !.joined = @ + 1]
             ELSE engine' = [engine EXCEPT !.pc = "aborted"]
    /\ UNCHANGED env
    /\ UnchangedByEngine

\* check_dag after the last handle: true
EngineReturn ==
    /\ engine.pc = "joining"
    /\ engine.joined = Len(engine.handles)
    /\ engine' = [engine EXCEPT !.pc = "returned", !.ret = "true"]
    /\ UNCHANGED env
    /\ UnchangedByEngine

(***************************************************************************)
(* YamlParser::parse_tasks (parser/yaml_parser.rs)                         *)
(***************************************************************************)
\* The keys a document uses.  The keys of the tasks are interchangeable, so
\* the i-th task of a document carries the i-th key; the last key is the key
\* of no task.
YamlKeys == [i \in 1 .. MaxYamlTasks + 1 |-> <<"a", "b", "c", "d", "e">>[i]]

AfterLists == UNION {[1 .. k -> Range(YamlKeys)] : k \in 0 .. MaxAfter}

\* the `run` attribute of a task: absent; without `type`; type sh or deno
\* with a script; a type without `script`; a type that is neither
RunKinds == {"none", "no_type", "sh", "deno", "no_script", "other"}

\* the items under `dagrs`: a key, whether `name` is there, `after`, `run`
YamlItems(i) ==
    [key : {YamlKeys[i]}, name : BOOLEAN, after : AfterLists, run : RunKinds]

\* the file can be none (no such file), text that is no YAML, a file without
\* a document or a document without a `dagrs` mapping
BadHeaders == {"missing", "malformed", "empty", "no_root"}

\* item["name"].as_str(): the name of the task with this key
NameOf(key) == "Task " \o key

\* a parse_one that looks at `run` before `name`
ParseOne_RunFirst(item) ==
    IF item.run = "none" THEN [kind |-> "NoRunAttr", arg |-> NameOf(item.key)]
    ELSE IF item.run = "no_type"
    THEN [kind |-> "NoTypeAttr", arg |-> NameOf(item.key)]
    ELSE IF ~ item.name THEN [kind |-> "NoNameAttr", arg |-> item.key]
    ELSE IF item.run = "no_script"
    THEN [kind |-> "NoScriptAttr", arg |-> NameOf(item.key)]
    ELSE IF item.run = "other"
    THEN [kind |-> "UnsupportedType", arg |-> NameOf(item.key)]
    ELSE NoError

\* YamlParser::parse_one up to YamlTask::new: the error it returns, if any
ParseOne(item) ==
    IF ~ item.name THEN [kind |-> "NoNameAttr", arg |-> item.key]
    ELSE IF item.run = "none"
    THEN [kind |-> "NoRunAttr", arg |-> NameOf(item.key)]
    ELSE IF item.run = "no_type"
    THEN [kind |-> "NoTypeAttr", arg |-> NameOf(item.key)]
    ELSE IF item.run = "no_script"
    THEN [kind |-> "NoScriptAttr", arg |-> NameOf(item.key)]
    ELSE IF item.run = "other"
    THEN [kind |-> "UnsupportedType", arg |-> NameOf(item.key)]
    ELSE NoError

\* ID_ALLOCATOR.alloc() of task/mod.rs called by one thread with the counter
\* at the given value
Alloc(counter) ==
    LET r == FetchAdd(counter)
    IN [panic |-> r.origin > r.id, id |-> r.origin, counter |-> r.id]

\* parse_tasks, "Read tasks": parse_one for every item in the order of the
\* document; YamlTask::new allocates the id; map.insert(id, task.id())
RECURSIVE ReadTasks(_, _, _, _, _)
ReadTasks(items, parsed, map, counter, minted) ==
    IF items = <<>>
    THEN [err |-> NoError, panic |-> FALSE, tasks |-> parsed, map |-> map,
          counter |-> counter, minted |-> minted]
    ELSE LET item == Head(items)
             e == ParseOne(item)
             a == Alloc(counter)
         IN IF e # NoError
            THEN [err |-> e, panic |-> FALSE, tasks |-> <<>>, map |-> map,
                  counter |-> counter, minted |-> minted]
            ELSE IF a.panic
            THEN [err |-> NoError, panic |-> TRUE, tasks |-> <<>>, map |-> map,
                  counter |-> a.counter, minted |-> minted]
            ELSE ReadTasks(Tail(items),
                           Append(parsed, [key |-> item.key, id |-> a.id,
                                          name |-> NameOf(item.key),
                                          precursors |-> item.after,
                                          precursors_id |-> <<>>,
                                          run |-> item.run]),
                           Insert(map, item.key, a.id), a.counter,
                           minted \cup {a.id})

\* a resolution that knows only the parsed the document defines earlier
MapSeenBy_Earlier(map, parsed, i) ==
    [k \in {parsed[j].key : j \in 1 .. (i - 1)} |-> map[k]]

\* the key -> id map the second pass resolves the i-th task with: the map
\* the first pass has filled with every task
MapSeenBy(map, parsed, i) == map

\* pres reversed
Pres_Reversed(precursors, map) ==
    [j \in 1 .. Len(precursors) |-> map[precursors[Len(precursors) + 1 - j]]]

\* the inner loop of the second pass when every key is known: pres
Pres(precursors, map) == [j \in 1 .. Len(precursors) |-> map[precursors[j]]]

\* parse_tasks, the second pass: the predecessors of every task are resolved
\* in the order of the parsed; the first unknown key ends it
RECURSIVE Resolve(_, _, _)
Resolve(parsed, i, map) ==
    IF i > Len(parsed)
    THEN [err |-> NoError, tasks |-> parsed]
    ELSE LET task == parsed[i]
             seen == MapSeenBy(map, parsed, i)
         IN IF \E j \in 1 .. Len(task.precursors) :
                   task.precursors[j] \notin DOMAIN seen
            THEN [err |-> [kind |-> "NotFoundPrecursor", arg |-> task.name],
                  tasks |-> <<>>]
            ELSE Resolve([parsed EXCEPT ![i].precursors_id =
                                           Pres(task.precursors, seen)],
                         i + 1, map)

\* YamlParser::parse_tasks on the file, the id counter at the given value
ParseTasks(file, counter) ==
    LET failed(kind, arg) ==
            [err |-> [kind |-> kind, arg |-> arg], tasks |-> <<>>,
             panic |-> FALSE, minted |-> {}, counter |-> counter]
    IN IF file.header = "missing" THEN failed("FileNotFound", "")
       ELSE IF file.header = "malformed" THEN failed("IllegalYamlContent", "")
       ELSE IF file.header = "empty" THEN failed("Empty", "")
       ELSE IF file.header = "no_root" THEN failed("StartWordError", "")
       ELSE LET r == ReadTasks(file.items, <<>>, EmptyMap, counter, {})
                t == Resolve(r.tasks, 1, r.map)
            IN IF r.panic \/ r.err # NoError
               THEN [err |-> r.err, tasks |-> <<>>, panic |-> r.panic,
                     minted |-> r.minted, counter |-> r.counter]
               ELSE [err |-> t.err, tasks |-> t.tasks, panic |-> FALSE,
                     minted |-> r.minted, counter |-> r.counter]

\* The author of the file adds a task at the end of the `dagrs` mapping.
WriteItem(item) ==
    /\ yaml.pc = "none"
    /\ yaml.file.header = "ok"
    /\ Len(yaml.file.items) < MaxYamlTasks
    /\ item \in YamlItems(Len(yaml.file.items) + 1)
    /\ yaml' = [yaml EXCEPT !.file.items = Append(@, item)]
    /\ UNCHANGED << graph_vars, wire, bcst, allocator, engine, probe, manager, derive, env, cli >>

\* The file is one parse_tasks gets no tasks from.
SpoilFile(header) ==
    /\ yaml.pc = "none"
    /\ yaml.file = YamlInit.file
    /\ header \in BadHeaders
    /\ yaml' = [yaml EXCEPT !.file.header = header]
    /\ UNCHANGED << graph_vars, wire, bcst, allocator, engine, probe, manager, derive, env, cli >>

\* YamlParser.parse_tasks(file), by a thread that is not inside alloc()
Parse ==
    /\ yaml.pc = "none"
    /\ LET r == ParseTasks(yaml.file, allocator.atomic.id)
       IN /\ yaml' = [yaml EXCEPT
                          !.pc = "done",
                          !.result = [err |-> r.err, tasks |-> r.tasks,
                                      panic |-> r.panic, minted |-> r.minted]]
          /\ allocator' = [allocator EXCEPT !.atomic.id = r.counter]
    /\ UNCHANGED << graph_vars, wire, bcst, engine, probe, manager, derive, env, cli >>

(***************************************************************************)
(* main.rs: the command-line program                                       *)
(***************************************************************************)
\* the exit status of a process whose main thread panicked
PanicExitCode == 101

\* the exit status of a process ended by std::process::abort() (SIGABRT)
AbortExitCode == 134

\* main returned
SuccessExitCode == 0

\* DagEngine::read_tasks after parse_tasks returned: unwrap() panics on an
\* Err, which ends the process; the tasks of an Ok go to add_tasks one by
\* one.  kinds is what the script of each task will do when it runs.
CliReadTasks ==
    /\ cli.pc = "none"
    /\ yaml.pc = "done"
    /\ IF yaml.result.panic \/ yaml.result.err # NoError
       THEN /\ cli' = [pc |-> "exited", exit |-> PanicExitCode]
            /\ UNCHANGED engine
       ELSE LET parsed == yaml.result.tasks
                ids == {parsed[i].id : i \in 1 .. Len(parsed)}
                task(id) == CHOOSE t \in Range(parsed) : t.id = id
            IN \E kinds \in [ids -> EngineKinds] :
                 /\ engine' =
                      [engine EXCEPT
                         !.tasks = [id \in ids |->
                                      [predecessors |-> task(id).precursors_id,
                                       kind |-> kinds[id]]]]
                 /\ cli' = [cli EXCEPT !.pc = "running"]
    /\ UNCHANGED << graph_vars, wire, bcst, allocator, probe, manager, derive, yaml, env >>

\* main after run_from_yaml: an Err is logged, and main returns whatever the
\* Result is; a task that did not complete has ended the process in
\* check_dag with std::process::abort()
CliExit ==
    /\ cli.pc = "running"
    /\ engine.pc \in {"returned", "aborted"}
    /\ cli' = [pc |-> "exited",
               exit |-> IF engine.pc = "aborted" THEN AbortExitCode
                        ELSE SuccessExitCode]
    /\ UNCHANGED << graph_vars, wire, bcst, allocator, engine, probe, manager, derive, yaml,
                    env >>

(***************************************************************************)
(* ExecState of task/state.rs used directly: one thread stores outputs,    *)
(* observers read them                                                     *)
(***************************************************************************)
UnchangedByProbe ==
    UNCHANGED << graph_vars, wire, bcst, allocator, engine, more >>

\* the outputs an action can return: Output::new(v) or Output::empty()
ProbeOutputs == {OutputNew(v) : v \in Contents} \cup {OutputEmpty}

\* state.set_output(output)
ProbeSetOutput(k, output) ==
    /\ probe' = [probe EXCEPT ![k].state = LegacySetOutput(@, output),
                              ![k].sets = @ + 1]
    /\ UnchangedByProbe

\* state.get_output(), by an observer
ProbeGetOutput(k) ==
    /\ LET got == LegacyGetOutput(probe[k].state)
       IN probe' = [probe EXCEPT
                       ![k].ret = [called |-> TRUE, panic |-> got.panic,
                                   content |-> got.content,
                                   saw |-> probe[k].state.output]]
    /\ UnchangedByProbe

(***************************************************************************)
(* Notions the properties are stated with                                  *)
(***************************************************************************)
\* the ids reachable from the set S along one or more edges
RECURSIVE ReachFrom(_, _)
ReachFrom(S, seen) ==
    LET step == {p[2] : p \in {q \in Edges : q[1] \in S}} \ seen
    IN IF step = {} THEN seen ELSE ReachFrom(step, seen \cup step)

Descendants(n) == ReachFrom({n}, {})

Ancestors(n) == {m \in NodeIds : n \in Descendants(m)}

HasCycle == \E n \in NodeIds : n \in Descendants(n)

\* no id was handed to add_node twice
DistinctIds == node_count = Cardinality(DOMAIN nodes)

\* every declared edge joins two nodes handed to add_node
EdgesOverNodes ==
    \A p \in Edges : p[1] \in DOMAIN nodes /\ p[2] \in DOMAIN nodes

\* the step is a call of start()
StartCalled == starts' = starts + 1

\* start() has returned from a run of the graph (it was not rejected)
RunOver ==
    /\ phase = "idle"
    /\ result.kind \in {"Ok", "ExecutionFailed", "PanicOccurred", "MultipleErrors"}

\* no task can take a step: each has ended or waits (for a message, or for
\* the lock of its node)
TaskBlocked(b, n) ==
    \/ Finished(tasks[b][n])
    \/ /\ ~tasks[b][n].abort
       /\ \/ tasks[b][n].pc = "spawned" /\ NodeLocked(n)
          \/ /\ tasks[b][n].pc = "running"
             /\ tasks[b][n].pending # {}
             /\ RecvFrom(n, Min(tasks[b][n].pending)) = "Pending"

TasksSettled ==
    /\ tasks # <<>>
    /\ \A b \in DOMAIN tasks : \A n \in DOMAIN tasks[b] : TaskBlocked(b, n)

Outcome(n) == IF n \in DOMAIN execute_states THEN execute_states[n].outcome ELSE "none"

StoredOutput(n) == IF n \in DOMAIN execute_states THEN execute_states[n].output ELSE "None"

\* the nodes of the last start() whose action returned Err or panicked
FailedNodes == {n \in DOMAIN nodes : nodes[n] \in {"err", "panic"} /\ Invoked(n) > 0}

\* the steps of the tasks and of run()
Run ==
    \/ \E b \in DOMAIN tasks, n \in NodeIds : TaskRun(b, n)
    \/ \E b \in DOMAIN tasks, n \in NodeIds : RelayBegin(b, n)
    \/ \E b \in DOMAIN tasks, n \in NodeIds : RelayRecv(b, n)
    \/ \E b \in DOMAIN tasks, n \in NodeIds : RelayFinish(b, n)
    \/ \E b \in DOMAIN tasks, n \in NodeIds : TaskCancel(b, n)
    \/ ChunkCheck
    \/ ChunkJoined
    \/ RunReturn
    \/ StartReturn

(***************************************************************************)
(* Spec: a client that adds every node once and before the edges to it,    *)
(* and starts the graph.                                                   *)
(***************************************************************************)
Next ==
    \/ \E id \in NodeIds \ DOMAIN nodes : starts = 0 /\ AddNode(id)
    \/ \E from_id \in DOMAIN nodes, all_to_ids \in TargetLists :
          /\ starts = 0
          /\ Range(all_to_ids) \subseteq DOMAIN nodes
          /\ EdgeCountAfter(from_id, all_to_ids) <= MaxEdges
          /\ AddEdge(from_id, all_to_ids)
    \/ starts < MaxStarts /\ Start
    \/ Run

Spec == Init /\ [][Next]_vars

(***************************************************************************)
(* SpecRestart: a client that builds a graph of few nodes, then starts     *)
(* and resets it and adds edges between the runs.                          *)
(***************************************************************************)
RestartIds == 1 .. MaxRestartNodes

InitRestart == Init /\ \A id \in NodeIds \ RestartIds : action[id] = "cond_false"

NextRestart ==
    \/ \E id \in RestartIds \ DOMAIN nodes : starts = 0 /\ AddNode(id)
    \/ \E from_id \in DOMAIN nodes, all_to_ids \in TargetLists :
          /\ Range(all_to_ids) \subseteq DOMAIN nodes
          /\ EdgeCountAfter(from_id, all_to_ids) <= MaxRestartEdges
          /\ AddEdge(from_id, all_to_ids)
    \/ resets < MaxResets /\ starts > 0 /\ Reset
    \/ starts < MaxRestartStarts /\ Start
    \/ Run

SpecRestart == InitRestart /\ [][NextRestart]_vars

(***************************************************************************)
(* SpecBuild: a client that calls add_node and add_edge in any order and   *)
(* with any ids, and starts the graph.                                     *)
(***************************************************************************)
BuildWorkloads ==
    {f \in Workloads : f[1] = "relay" /\ f[2] = "relay" /\ f[MaxNodes] = "cond_false"}

InitBuild == Init /\ action \in BuildWorkloads

NextBuild ==
    \/ \E id \in NodeIds : node_count < MaxAddNode /\ AddNode(id)
    \/ \E from_id \in NodeIds, all_to_ids \in TargetLists :
          /\ EdgeCountAfter(from_id, all_to_ids) <= MaxBuildEdges
          /\ AddEdge(from_id, all_to_ids)
    \/ \E from_id \in NodeIds : AddEdgeUnknownSender(from_id)
    \/ starts < MaxBuildStarts /\ Start
    \/ Run

SpecBuild == InitBuild /\ [][NextBuild]_vars

(***************************************************************************)
(* SpecChannel: a client that builds a graph and then uses the channels of *)
(* its nodes itself.                                                       *)
(***************************************************************************)
InitChannel == Init /\ action = [n \in NodeIds |-> "relay"]

NextChannel ==
    \/ \E id \in RestartIds \ DOMAIN nodes : wire.ret = NoCall /\ AddNode(id)
    \/ \E from_id \in DOMAIN nodes, all_to_ids \in TargetLists :
          /\ wire.ret = NoCall
          /\ Range(all_to_ids) \subseteq DOMAIN nodes
          /\ EdgeCountAfter(from_id, all_to_ids) <= MaxWireEdges
          /\ AddEdge(from_id, all_to_ids)
    \/ \E n \in RestartIds, id \in RestartIds, content \in Contents :
          WireSends < MaxWireSends /\ SendToCall(n, id, content)
    \/ \E n \in RestartIds, id \in RestartIds : RecvFromCall(n, id)
    \/ \E n \in RestartIds, id \in RestartIds, in_runtime \in BOOLEAN :
          InChannelsClose(n, id, in_runtime)
    \/ \E n \in RestartIds, id \in RestartIds : OutChannelsClose(n, id)

SpecChannel == InitChannel /\ [][NextChannel]_vars

(***************************************************************************)
(* SpecBroadcast: one producer and the receivers of a broadcast channel.   *)
(***************************************************************************)
InitBroadcast == Init /\ action = [n \in NodeIds |-> "relay"]

NextBroadcast ==
    \/ bcst.tail < MaxBcstSends /\ BcstSend
    \/ \E c \in Consumers : BcstRecv(c)
    \/ BcstSenderDrop
    \/ \E c \in Consumers : BcstReceiverDrop(c)

SpecBroadcast == InitBroadcast /\ [][NextBroadcast]_vars

\* Threads that construct tasks, and so call alloc(), side by side.
InitAllocator == Init /\ action = [n \in NodeIds |-> "relay"]

NextAllocator ==
    \E p \in Callers :
        \/ allocator.calls.atomic < MaxAllocs /\ AllocFetchAdd(p)
        \/ AllocCheck(p)
        \/ allocator.calls.locked < MaxAllocs /\ LockedAlloc(p)

SpecAllocator == InitAllocator /\ [][NextAllocator]_vars

(***************************************************************************)
(* SpecEngines: a program with a Graph and a legacy DagEngine.  It hands   *)
(* tasks to the DagEngine only while the Graph is untouched, and builds    *)
(* and starts the Graph only while the DagEngine holds no task.            *)
(***************************************************************************)
InitEngines == InitBuild

\* nothing has been done with the Graph
GraphUntouched == node_count = 0 /\ starts = 0

NextEngines ==
    \/ \E id \in NodeIds \ DOMAIN nodes :
          engine.tasks = EmptyMap /\ starts = 0 /\ AddNode(id)
    \/ \E from_id \in DOMAIN nodes, all_to_ids \in TargetLists :
          /\ engine.tasks = EmptyMap
          /\ starts = 0
          /\ Range(all_to_ids) \subseteq DOMAIN nodes
          /\ EdgeCountAfter(from_id, all_to_ids) <= MaxEdges
          /\ AddEdge(from_id, all_to_ids)
    \/ engine.tasks = EmptyMap /\ starts < MaxStarts /\ Start
    \/ Run
    \/ \E id \in EngineIds \ DOMAIN engine.tasks,
          predecessors \in PredecessorLists, kind \in EngineKinds :
          GraphUntouched /\ EngineAddTask(id, predecessors, kind)
    \/ GraphUntouched /\ EngineRun
    \/ \E id \in EngineIds : EngineAcquire(id)
    \/ \E id \in EngineIds : EngineExecute(id)
    \/ \E id \in EngineIds : EngineAddPermits(id)
    \/ EngineJoin
    \/ EngineReturn

SpecEngines == InitEngines /\ [][NextEngines]_vars

(***************************************************************************)
(* SpecEnv: a program sets environment variables, gives a DagEngine a few  *)
(* tasks and runs it; the actions of the tasks and the program after run() *)
(* set variables as well.                                                  *)
(***************************************************************************)
InitEnv == InitBuild

NextEnv ==
    \/ \E key \in EnvKeys, type \in EnvTypes, val \in EnvValues :
          SetEnv(key, type, val)
    \/ \E id \in 1 .. MaxEnvTasks \ DOMAIN engine.tasks,
          predecessors \in PredecessorLists, kind \in EngineKinds :
          /\ Len(predecessors) <= 1
          /\ Range(predecessors) \subseteq 1 .. MaxEnvTasks
          /\ EngineAddTask(id, predecessors, kind)
    \/ EngineRun
    \/ \E id \in EngineIds : EngineAcquire(id)
    \/ \E id \in EngineIds : EngineExecute(id)
    \/ \E id \in EngineIds : EngineAddPermits(id)
    \/ EngineJoin
    \/ EngineReturn

SpecEnv == InitEnv /\ [][NextEnv]_vars

(***************************************************************************)
(* SpecCli: somebody writes a YAML file and runs the command-line program  *)
(* on it.                                                                  *)
(***************************************************************************)
InitCli == InitBuild

NextCli ==
    \/ \E header \in BadHeaders : SpoilFile(header)
    \/ \E i \in 1 .. MaxYamlTasks : \E item \in YamlItems(i) : WriteItem(item)
    \/ Parse
    \/ CliReadTasks
    \/ cli.pc = "running" /\ EngineRun
    \/ \E id \in EngineIds : EngineAcquire(id)
    \/ \E id \in EngineIds : EngineExecute(id)
    \/ \E id \in EngineIds : EngineAddPermits(id)
    \/ EngineJoin
    \/ EngineReturn
    \/ CliExit

SpecCli == InitCli /\ [][NextCli]_vars

(***************************************************************************)
(* SpecParser: somebody writes a YAML file; a program constructs some       *)
(* tasks, which allocates their ids, and parses the file.                  *)
(***************************************************************************)
InitParser == InitBuild

NextParser ==
    \/ allocator.calls.atomic < MaxPreAllocs /\ AllocFetchAdd(1)
    \/ AllocCheck(1)
    \/ \E header \in BadHeaders : SpoilFile(header)
    \/ \E i \in 1 .. MaxYamlTasks : \E item \in YamlItems(i) : WriteItem(item)
    \/ allocator.thread[1].pc = "idle" /\ Parse

SpecParser == InitParser /\ [][NextParser]_vars

(***************************************************************************)
(* SpecState: a client that holds ExecStates, stores outputs in them and   *)
(* reads them at any time.                                                 *)
(***************************************************************************)
InitState == InitBuild

NextState ==
    \/ \E k \in ProbeIds, output \in ProbeOutputs :
          probe[k].sets < MaxSets /\ ProbeSetOutput(k, output)
    \/ \E k \in ProbeIds : ProbeGetOutput(k)

SpecState == InitState /\ [][NextState]_vars

(***************************************************************************)
(* C1  (SpecBuild)                                                         *)
(***************************************************************************)
\* C1: for a graph built over distinct node ids, start() returns
\* GraphLoopDetected if and only if the declared edges contain a directed
\* cycle.
C1_LoopDetectedIffCycle ==
    [][(StartCalled /\ DistinctIds /\ EdgesOverNodes)
          => ((result'.kind = "GraphLoopDetected") <=> HasCycle)]_vars

(***************************************************************************)
(* C2  (Spec)                                                              *)
(***************************************************************************)
\* C2 as claimed: for any edge u -> v, the run of v begins only after u has
\* produced a message on u -> v (this Graph holds no completion permits).
C2_RunAfterProduce ==
    \A p \in Edges :
        (p[1] \in DOMAIN nodes /\ p[2] \in DOMAIN nodes /\ Invoked(p[2]) > 0)
            => sent[p] > 0

\* C2 as amended: the run of v may begin at once; what waits is the receive.
\* A relay node has got past the receive from u only if u has sent on u -> v
\* (or the sending half is gone).
C2_ReceiveAfterProduce ==
    \A b \in DOMAIN tasks : \A v \in DOMAIN tasks[b] :
        (nodes[v] = "relay" /\ tasks[b][v].ran)
            => \A u \in in_channels[v] \ tasks[b][v].pending :
                  sent[<<u, v>>] > 0 \/ ~SenderAlive(u, v)

\* a relay node with a predecessor has received and ended
C2_Witness ==
    \E b \in DOMAIN tasks : \E v \in DOMAIN tasks[b] :
        /\ nodes[v] = "relay"
        /\ tasks[b][v].pc = "done"
        /\ in_channels[v] # {}
        /\ \A u \in in_channels[v] : sent[<<u, v>>] > 0

(***************************************************************************)
(* C3  (Spec)                                                              *)
(***************************************************************************)
\* C3: whenever start() has returned Ok(()), every node of the graph has the
\* recorded outcome success and its stored Output is not the Err variant.
C3_OkMeansAllSucceeded ==
    (RunOver /\ result.kind = "Ok")
        => \A n \in DOMAIN nodes :
              /\ Outcome(n) = "success"
              /\ ~IsErr(StoredOutput(n))

(***************************************************************************)
(* C4  (Spec)                                                              *)
(***************************************************************************)
\* the graph holds a conditional node
HasConditional == \E n \in DOMAIN nodes : IsCondition(nodes[n])

\* a task has been told to stop (JoinHandle::abort, or the runtime is gone)
SomeAbort ==
    \E b \in DOMAIN tasks : \E n \in DOMAIN tasks[b] :
        tasks[b][n].abort \/ tasks[b][n].pc = "aborted"

\* n waits for no message that will never come: it uses no channel, or it
\* relays and so does everything upstream of it
Unhindered(n) ==
    \/ nodes[n] = "hello"
    \/ nodes[n] = "relay" /\ \A m \in Ancestors(n) : m \in DOMAIN nodes /\ nodes[m] = "relay"

\* C4: a node whose action returns Err or panics never makes the engine abort
\* another task: a task is told to stop only after a conditional node has
\* returned ConditionResult(false); and in a graph with no conditional node,
\* once no task can move, every node that does not depend on a failed node
\* has run to completion and recorded its own output.
C4_FailureAbortsNothing ==
    /\ SomeAbort => ~condition_flag
    /\ (tasks # <<>> /\ ~condition_flag) =>
          \E c \in DOMAIN nodes :
              /\ IsCondition(nodes[c])
              /\ Invoked(c) > 0
              /\ StoredOutput(c) = "ConditionResult(false)"
    /\ (TasksSettled /\ ~HasConditional) =>
          \A n \in DOMAIN nodes :
              Unhindered(n) =>
                  /\ Outcome(n) = "success"
                  /\ StoredOutput(n) = "Out"

\* a node has failed, and a node that does not depend on it has run and
\* recorded its output
C4_Witness ==
    /\ TasksSettled
    /\ ~HasConditional
    /\ \E f \in DOMAIN nodes, n \in DOMAIN nodes :
          /\ nodes[f] = "err"
          /\ Outcome(f) = "failure"
          /\ f \notin Ancestors(n)
          /\ Unhindered(n)
          /\ Invoked(n) > 0
          /\ Outcome(n) = "success"

(***************************************************************************)
(* C5  (Spec)                                                              *)
(***************************************************************************)
\* C5: if the action of a node has panicked in the run, start() returns
\* PanicOccurred, or MultipleErrors holding a PanicOccurred, never Ok.
C5_PanicIsReported ==
    (RunOver /\ \E n \in DOMAIN nodes : nodes[n] = "panic" /\ Invoked(n) > 0)
        => \E i \in DOMAIN result.errs : result.errs[i][1] = "PanicOccurred"

(***************************************************************************)
(* C6  (Spec)                                                              *)
(***************************************************************************)
\* C6: when the action of a node has panicked, the node's input and output
\* channels are closed, so no peer stays blocked in recv_from on a channel
\* from that node.
C6_PanicClosesChannels ==
    \A b \in DOMAIN tasks : \A n \in DOMAIN tasks[b] :
        tasks[b][n].pc = "panicked"
            => /\ \A v \in NodeIds : ~SenderAlive(n, v) /\ ~ReceiverAlive(v, n)
               /\ \A b2 \in DOMAIN tasks : \A v \in DOMAIN tasks[b2] :
                     (tasks[b2][v].pc = "running" /\ tasks[b2][v].pending # {})
                         => RecvFrom(v, Min(tasks[b2][v].pending)) # "Pending"
                            \/ Min(tasks[b2][v].pending) # n

(***************************************************************************)
(* C7  (Spec)                                                              *)
(***************************************************************************)
\* C7: when a conditional node has returned ConditionResult(false), no node
\* of a later block has run its action; each keeps the outcome pending with
\* no output recorded.
C7_GatedNodesNeverRun ==
    \A b \in DOMAIN tasks : \A c \in DOMAIN tasks[b] :
        (IsCondition(nodes[c]) /\ tasks[b][c].ran)
            => \A b2 \in DOMAIN tasks : \A n \in DOMAIN tasks[b2] :
                  b2 > b => /\ ~tasks[b2][n].ran
                            /\ Outcome(n) = "pending"
                            /\ StoredOutput(n) = "None"

(***************************************************************************)
(* C8  (Spec)                                                              *)
(***************************************************************************)
\* C8: when start() has returned from a run, it returned Ok if no node
\* failed, the single error if one did, MultipleErrors otherwise, and the
\* errors are as many as the nodes whose action returned Err or panicked.
C8_OneErrorPerFailedNode ==
    RunOver =>
        /\ Len(result.errs) = Cardinality(FailedNodes)
        /\ Cardinality(FailedNodes) = 0 => result.kind = "Ok"
        /\ Cardinality(FailedNodes) = 1
              => result.kind \in {"ExecutionFailed", "PanicOccurred"}
        /\ Cardinality(FailedNodes) > 1 => result.kind = "MultipleErrors"

(***************************************************************************)
(* C9  (SpecRestart)                                                       *)
(***************************************************************************)
\* C9: a start() of a graph that is inactive (it has run and was not reset)
\* returns GraphNotActive and runs no action.
C9_InactiveStartRejected ==
    [][(StartCalled /\ ~is_active)
          => (result'.kind = "GraphNotActive" /\ tasks' = <<>>)]_vars

(***************************************************************************)
(* C10  (SpecRestart)                                                      *)
(***************************************************************************)
\* the members of a sequence
Members(s) == {s[i] : i \in DOMAIN s}

\* C10: on a graph with no conditional node (a deterministic workload), the
\* start() after a reset() of a completed graph with unchanged nodes and
\* edges returns what the first start() returned and leaves the same
\* per-node outputs.
C10_ResetThenStartRepeats ==
    ( /\ phase = "shutdown"
      /\ AllEnded
      /\ starts = 2
      /\ resets = 1
      /\ last.result.kind \in {"Ok", "ExecutionFailed", "PanicOccurred", "MultipleErrors"}
      /\ last.edges = Edges
      /\ ~HasConditional )
        => /\ result.kind = last.result.kind
           /\ Len(result.errs) = Len(last.result.errs)
           /\ Members(result.errs) = Members(last.result.errs)
           /\ GetOutputs = last.outputs

(***************************************************************************)
(* C11  (Spec)                                                             *)
(***************************************************************************)
\* C11: after any sequence of add_edge calls, a sender with exactly one
\* consumer owns an mpsc channel and a sender with two or more consumers owns
\* a broadcast channel shared by all its consumers.
C11_BroadcastForManyConsumers ==
    \A u \in DOMAIN nodes :
        /\ Cardinality(out_channels[u]) = 1
              => \A v \in out_channels[u] : ChannelKind(u, v) = "Mpsc"
        /\ Cardinality(out_channels[u]) >= 2
              => \A v \in out_channels[u] : ChannelKind(u, v) = "Bcst"

(***************************************************************************)
(* C15  (Spec)                                                             *)
(***************************************************************************)
\* the nodes that have a task
Spawned == {n \in NodeIds : \E b \in DOMAIN tasks : n \in DOMAIN tasks[b]}

\* C15: when start() has returned GraphLoopDetected no task was spawned and
\* no action was invoked: every node is pending with no output; and tasks
\* exist only for a graph the validation has passed, which has put every
\* node into a block.
C15_LoopRejectedBeforeSpawn ==
    /\ result.kind = "GraphLoopDetected"
          => /\ phase = "idle"
             /\ tasks = <<>>
             /\ \A n \in DOMAIN nodes :
                   Invoked(n) = 0 /\ Outcome(n) = "pending" /\ StoredOutput(n) = "None"
    /\ tasks # <<>> => Spawned = DOMAIN nodes

\* start() has rejected a graph of two nodes or more for its loop
C15_Witness ==
    /\ starts > 0
    /\ result.kind = "GraphLoopDetected"
    /\ HasCycle
    /\ Cardinality(DOMAIN nodes) >= 2

(***************************************************************************)
(* C16  (SpecRestart)                                                      *)
(***************************************************************************)
\* C16: in every run one task is launched per node, so the action of a node
\* is invoked at most once per run, also in a start() that follows reset().
C16_OneTaskPerNode ==
    \A n \in NodeIds :
        /\ Cardinality({b \in DOMAIN tasks : n \in DOMAIN tasks[b]}) <= 1
        /\ Invoked(n) <= 1

(***************************************************************************)
(* C17  (SpecRestart)                                                      *)
(***************************************************************************)
\* the step is a return of start(): at once when it rejects the graph, or
\* when the runtime of the run is gone
StartReturns ==
    \/ StartCalled /\ phase' = "idle"
    \/ phase = "shutdown" /\ phase' = "idle"

\* C17: when start() returns, whatever its result, the keys of get_outputs()
\* are the ids of the nodes added to the graph.
C17_OutputsForEveryNode ==
    [][StartReturns => DOMAIN GetOutputs' = DOMAIN nodes']_vars

\* the start() after a reset() has returned on a graph of two nodes, and
\* get_outputs() holds an entry for each
C17_Witness ==
    /\ phase = "idle"
    /\ starts = 2
    /\ resets = 1
    /\ result # NoResult
    /\ Cardinality(DOMAIN nodes) = 2
    /\ DOMAIN GetOutputs = DOMAIN nodes

(***************************************************************************)
(* C12  (SpecChannel)                                                      *)
(***************************************************************************)
IsPrefix(s, t) == Len(s) <= Len(t) /\ SubSeq(t, 1, Len(s)) = s

\* C12: on every mpsc channel u -> v the values recv_from(u) has returned
\* on v are, in order, a prefix of the values send_to(v, x) has sent on u.
C12_FifoPrefix ==
    \A p \in Pairs : IsPrefix(wire.recv_log[p], wire.sent_log[p])

\* two different values were sent on a channel and both were received
C12_Witness ==
    \E p \in Pairs :
        /\ Len(wire.recv_log[p]) >= 2
        /\ wire.recv_log[p][1] # wire.recv_log[p][2]

(***************************************************************************)
(* C14  (SpecChannel)                                                      *)
(***************************************************************************)
\* the step is the call op(id) on the channels of n
Called(op, n, id) ==
    /\ wire'.ret.op = op
    /\ wire'.ret.node = n
    /\ wire'.ret.id = id
    /\ << wire, chan, sent, in_channels, out_channels >>'
          # << wire, chan, sent, in_channels, out_channels >>

\* C14: recv_from(id) and send_to(id, x) on an id the node holds no channel
\* for are not made to wait, return ChannelNExist and change no channel; a
\* close(id) that has returned has removed the entry, so that a recv_from(id)
\* or send_to(id, x) after it is such a call.
C14_NoSuchChannel ==
    [][\A n \in DOMAIN nodes, id \in NodeIds :
          /\ id \notin in_channels[n] => RecvFrom(n, id) = "ChannelNExist"
          /\ id \notin out_channels[n] => SendTo(n, id) = "ChannelNExist"
          /\ (Called("recv_from", n, id) /\ id \notin in_channels[n])
                => /\ wire'.ret.res = "ChannelNExist"
                   /\ UNCHANGED << chan, sent, in_channels, out_channels >>
          /\ (Called("send_to", n, id) /\ id \notin out_channels[n])
                => /\ wire'.ret.res = "ChannelNExist"
                   /\ UNCHANGED << chan, sent, in_channels, out_channels >>
          /\ (Called("in_close", n, id) /\ wire'.ret.res = "Ok")
                => id \notin in_channels'[n]
          /\ Called("out_close", n, id)
                => id \notin out_channels'[n]]_vars

\* recv_from(id) has returned ChannelNExist for a channel that add_edge had
\* made and close(id) has removed (its sender is still held)
C14_Witness ==
    /\ wire.ret.op = "recv_from"
    /\ wire.ret.res = "ChannelNExist"
    /\ wire.ret.node \in out_channels[wire.ret.id]
    /\ wire.ret.id \notin in_channels[wire.ret.node]

AtomicIssued ==
    UNION {{[thread |-> p, at |-> i, id |-> allocator.issued.atomic[p][i].id,
             wraps |-> allocator.issued.atomic[p][i].wraps] :
                i \in 1 .. Len(allocator.issued.atomic[p])} : p \in Callers}

\* the previous values fetch_add has handed to threads still inside alloc()
InFlight ==
    {allocator.thread[p].origin :
        p \in {q \in Callers : allocator.thread[q].pc = "fetched"}}

\* C19: as long as the id counter has not wrapped, the ids alloc() has returned
\* to concurrent callers are pairwise distinct, the ids returned to one caller
\* are strictly increasing, and every value from 1 up to the counter has gone
\* to exactly one call: alloc returns the previous value and advances (the
\* first id is 1).
C19_AllocDistinctIncreasing ==
    allocator.atomic.wraps = 0 =>
        /\ \A a \in AtomicIssued, b \in AtomicIssued : a # b => a.id # b.id
        /\ \A a \in AtomicIssued, b \in AtomicIssued :
              a.thread = b.thread /\ a.at < b.at => a.id < b.id
        /\ {a.id : a \in AtomicIssued} \cup InFlight
              = 1 .. (allocator.atomic.id - 1)
        /\ Cardinality(AtomicIssued) + Cardinality(InFlight)
              = allocator.atomic.id - 1

\* two threads have called alloc() side by side and each has got two ids, the
\* ids of one lying between the ids of the other, before the counter wrapped
C19_Witness ==
    /\ allocator.atomic.wraps = 0
    /\ \A p \in Callers : Len(allocator.issued.atomic[p]) >= 2
    /\ \E p \in Callers, q \in Callers :
          /\ p # q
          /\ allocator.issued.atomic[p][1].id < allocator.issued.atomic[q][1].id
          /\ allocator.issued.atomic[q][1].id < allocator.issued.atomic[p][2].id

\* C20: once an id counter has wrapped, alloc has signalled a fatal error as
\* soon as no call is under way, and no id handed out comes from an increment
\* made after the wrap, so none is an id already issued or a smaller one:
\* neither from the atomic allocator nor from the one behind the mutex.
C20_WrapIsFatal ==
    /\ \A a \in AtomicIssued : a.wraps = 0
    /\ \A i \in 1 .. Len(allocator.issued.locked) :
          allocator.issued.locked[i].wraps = 0
    /\ allocator.atomic.wraps > 0 /\ InFlight = {} => allocator.fatal.atomic
    /\ allocator.locked.wraps > 0 => allocator.fatal.locked
C30_SendersMatchReceivers ==
    \A u \in NodeIds, v \in NodeIds :
        v \in out_channels[u] <=> u \in in_channels[v]
(***************************************************************************)
(* C21, C22, C23, C28  (SpecEngines)                                       *)
(***************************************************************************)
\* the times id stands among the first k entries of the list
Occurrences(list, k, id) == Cardinality({i \in 1 .. k : list[i] = id})

\* the out-degree of task p: the entries of predecessor lists that name it
OutDegree(p) ==
    LET D == DOMAIN engine.tasks
        total[S \in SUBSET D] ==
            IF S = {} THEN 0
            ELSE LET s == CHOOSE x \in S : TRUE
                 IN Occurrences(engine.tasks[s].predecessors,
                                Len(engine.tasks[s].predecessors), p)
                      + total[S \ {s}]
    IN total[D]

\* the permits of p's semaphore the spawned tasks have taken so far
Consumed(p) ==
    LET J == DOMAIN engine.job
        total[S \in SUBSET J] ==
            IF S = {} THEN 0
            ELSE LET s == CHOOSE x \in S : TRUE
                 IN Occurrences(engine.tasks[s].predecessors,
                                engine.job[s].at - 1, p)
                      + total[S \ {s}]
    IN total[J]

\* the action of the spawned task id has started
ActionStarted(id) ==
    \/ engine.job[id].pc \in {"stored", "finished"}
    \/ engine.job[id].pc = "waiting"
          /\ engine.job[id].at > Len(engine.tasks[id].predecessors)

\* C22: a spawned task releases no permit before it has stored its output and
\* exactly its out-degree when it completes; the permits a semaphore has left
\* are those released less one per predecessor entry a successor has waited
\* for; a task whose action has started has waited for every predecessor, and
\* each of them had stored its output by then; no get_output met a null
\* pointer.
C22_PermitsOrderReads ==
    \A id \in DOMAIN engine.job :
        LET j == engine.job[id]
            predecessors == engine.tasks[id].predecessors
        IN /\ j.released = (IF j.complete THEN OutDegree(id) ELSE 0)
           /\ j.released > 0 => ~ engine.execute_states[id].output.null
           /\ engine.execute_states[id].permits = j.released - Consumed(id)
           /\ engine.execute_states[id].permits >= 0
           /\ j.pc # "panicked"
           /\ \A i \in 1 .. (j.at - 1) :
                 ~ engine.execute_states[predecessors[i]].output.null
           /\ ActionStarted(id) => j.at = Len(predecessors) + 1

\* a task with two predecessors has started its action after both of them
\* released their permits
C22_Witness ==
    \E id \in DOMAIN engine.job :
        /\ Len(engine.tasks[id].predecessors) = 2
        /\ engine.tasks[id].predecessors[1] # engine.tasks[id].predecessors[2]
        /\ engine.job[id].pc = "finished"
        /\ engine.job[id].complete

\* some spawned task's action has returned Err
SomeTaskFailed ==
    \E id \in DOMAIN engine.job :
        engine.job[id].pc = "finished" /\ ~ engine.job[id].complete

\* C23: the engine never ends the host process, and a run() in which the
\* action of some task returned an error does not return true.
C23_FailureIsAValue ==
    /\ engine.pc # "aborted"
    /\ engine.pc = "returned" /\ SomeTaskFailed => engine.ret # "true"

\* Input::get(index), counted from 1: the content at that place, or None
InputGet(inputs, i) == IF i <= Len(inputs) THEN inputs[i] ELSE NoContent

\* C28: when the action of a task starts, place i of its Input holds what
\* the i-th of its declared predecessors has put out, and nothing where that
\* predecessor's output is empty.
C28_InputsFollowPredecessors ==
    \A id \in DOMAIN engine.job :
        ActionStarted(id) /\ engine.job[id].pc # "panicked" =>
            \A i \in 1 .. Len(engine.tasks[id].predecessors) :
                InputGet(engine.job[id].inputs, i)
                    = engine.execute_states[
                          engine.tasks[id].predecessors[i]].output.content

(***************************************************************************)
(* C21  (SpecState)                                                        *)
(***************************************************************************)
\* C21: a get_output does not panic, whether set_output has been called on
\* the state or not; it returns None while nothing has been stored, and the
\* content stored last after a set_output.
C21_GetOutputNoneOrStored ==
    \A k \in ProbeIds :
        probe[k].ret.called =>
            /\ ~ probe[k].ret.panic
            /\ probe[k].ret.content = probe[k].ret.saw.content

(***************************************************************************)
(* The claims about YamlParser::parse_tasks                                *)
(***************************************************************************)
\* the file has been parsed and parse_tasks returned
Parsed == yaml.pc = "done" /\ ~ yaml.result.panic

\* the keys of the tasks of a document
DocKeys(file) == {file.items[i].key : i \in 1 .. Len(file.items)}

\* a task that has a name and a run attribute of a supported type with a script
WellFormedItem(item) == item.name /\ item.run \in {"sh", "deno"}

\* the document has its root and every task of it is well formed
ChecksPass(file) ==
    /\ file.header = "ok"
    /\ \A i \in 1 .. Len(file.items) : WellFormedItem(file.items[i])

\* some `after` list names a key that is the key of no task
UnknownKey(file) ==
    \E i \in 1 .. Len(file.items) :
        \E j \in 1 .. Len(file.items[i].after) :
            file.items[i].after[j] \notin DocKeys(file)

\* C24: when every earlier check passes, parse_tasks fails with
\* NotFoundPrecursor if and only if some task's `after` list names a key
\* that is the key of no task of the document; otherwise it succeeds, also
\* when a task names a task the document defines later.
C24_NotFoundPrecursorIffUnknownKey ==
    (Parsed /\ ChecksPass(yaml.file)) =>
        /\ yaml.result.err.kind = "NotFoundPrecursor" <=> UnknownKey(yaml.file)
        /\ ~ UnknownKey(yaml.file) => yaml.result.err = NoError

\* a document whose first task comes after its second was parsed: the
\* reference to the later task was resolved
C24_Witness ==
    /\ Parsed /\ ChecksPass(yaml.file)
    /\ Len(yaml.file.items) = 2
    /\ yaml.file.items[1].after = << yaml.file.items[2].key >>
    /\ yaml.result.err = NoError
    /\ Len(yaml.result.tasks) = 2

\* the error a task's `run` attribute causes
RunError ==
    [none |-> "NoRunAttr", no_type |-> "NoTypeAttr",
     no_script |-> "NoScriptAttr", other |-> "UnsupportedType"]

\* the error of the header of a file
HeaderError ==
    [missing |-> "FileNotFound", malformed |-> "IllegalYamlContent",
     empty |-> "Empty", no_root |-> "StartWordError"]

\* the tasks of a document that fail a check
IllFormed(file) ==
    {i \in 1 .. Len(file.items) : ~ WellFormedItem(file.items[i])}

\* C25: parse_tasks reports the first failing check: the file, the YAML,
\* the document, the `dagrs` root, then the first task of the document that
\* fails a check, its name before its run attribute, and only then an
\* unknown predecessor; when a check fails no task is returned.
C25_FirstFailingCheck ==
    Parsed =>
        LET file == yaml.file
            err == yaml.result.err
            bad == IllFormed(file)
            first == CHOOSE i \in bad : \A k \in bad : i <= k
        IN /\ file.header # "ok" => err.kind = HeaderError[file.header]
           /\ (file.header = "ok" /\ bad # {}) =>
                 IF ~ file.items[first].name
                 THEN err = [kind |-> "NoNameAttr", arg |-> file.items[first].key]
                 ELSE err.kind = RunError[file.items[first].run]
           /\ (file.header = "ok" /\ bad = {}) =>
                 err.kind \in {"none", "NotFoundPrecursor"}
           /\ err # NoError => yaml.result.tasks = <<>>

\* a document was parsed whose first task names an unknown key and whose
\* second task has neither a name nor a run attribute: NoNameAttr of the
\* second task was reported
C25_Witness ==
    /\ Parsed /\ yaml.file.header = "ok"
    /\ Len(yaml.file.items) = 2
    /\ WellFormedItem(yaml.file.items[1])
    /\ yaml.file.items[1].after = << YamlKeys[MaxYamlTasks + 1] >>
    /\ ~ yaml.file.items[2].name /\ yaml.file.items[2].run = "none"
    /\ yaml.result.err = [kind |-> "NoNameAttr", arg |-> yaml.file.items[2].key]
    /\ yaml.result.tasks = <<>>

\* the ids alloc() has handed to the other code, or is about to
IdsOfOthers ==
    UNION {{allocator.issued.atomic[p][k].id :
                k \in 1 .. Len(allocator.issued.atomic[p])} : p \in Callers}
    \cup {allocator.thread[p].origin :
             p \in {q \in Callers : allocator.thread[q].pc = "fetched"}}

\* C26: on success parse_tasks returns one task per task of the document,
\* in its order, their ids pairwise distinct, allocated during the call and
\* held by nothing else; the predecessor ids of a task are, entry by entry,
\* the ids of the tasks its `after` list names.
C26_TasksMirrorDocument ==
    (Parsed /\ yaml.file.header = "ok" /\ yaml.result.err = NoError) =>
        LET items == yaml.file.items
            parsed == yaml.result.tasks
        IN /\ Len(parsed) = Len(items)
           /\ \A i \in 1 .. Len(items) :
                 /\ parsed[i].key = items[i].key
                 /\ parsed[i].id \in yaml.result.minted
                 /\ parsed[i].id \notin IdsOfOthers
                 /\ Len(parsed[i].precursors_id) = Len(items[i].after)
                 /\ \A j \in 1 .. Len(items[i].after) :
                       \E k \in 1 .. Len(parsed) :
                           /\ parsed[k].key = items[i].after[j]
                           /\ parsed[k].id = parsed[i].precursors_id[j]
           /\ \A i, k \in 1 .. Len(parsed) :
                 i # k => parsed[i].id # parsed[k].id

\* a document of two tasks was parsed after other code had allocated an id;
\* its second task comes after the second and the first, in this order
C26_Witness ==
    /\ Parsed /\ yaml.result.err = NoError
    /\ IdsOfOthers # {}
    /\ Len(yaml.result.tasks) = 2
    /\ yaml.file.items[2].after =
         << yaml.file.items[2].key, yaml.file.items[1].key >>
    /\ yaml.result.tasks[2].precursors_id =
         << yaml.result.tasks[2].id, yaml.result.tasks[1].id >>

(***************************************************************************)
(* The claim about the environment                                         *)
(***************************************************************************)
\* the calls of set_env made before DISABLE ran that set the key
SetBefore(key) ==
    {i \in 1 .. Len(env.log) : env.log[i].key = key /\ ~ env.log[i].disabled}

\* what get_env::<type>(key) has to return once execution has begun: the
\* value of the last set_env(key, ..) made before, if it is of the type
Expected(key, type) ==
    IF SetBefore(key) = {} THEN EnvNone
    ELSE LET i == CHOOSE i \in SetBefore(key) : \A k \in SetBefore(key) : k <= i
         IN IF env.log[i].type = type THEN EnvSome(env.log[i].val) ELSE EnvNone

\* the step is a call of set_env made after env_unchangeable()
SetEnvWhenFrozen == env.disabled /\ env'.calls = env.calls + 1

\* C27: a set_env called after the engine has called env_unchangeable()
\* leaves what get_env returns for every key and type as it was; the action
\* of a task runs after env_unchangeable() and reads, for every key, the
\* value of the last set_env made for it before execution began.
C27_EnvFrozenOnceRunning ==
    /\ [][SetEnvWhenFrozen => GetEnvAll(env') = GetEnvAll(env)]_vars
    /\ [](\A id \in DOMAIN env.seen :
             /\ env.disabled
             /\ \A key \in EnvKeys, type \in EnvTypes :
                   env.seen[id].vals[key][type] = Expected(key, type))

\* a variable was set before run() and set to another value after
\* env_unchangeable(); the action of a task that ran after both calls read
\* the first value, and get_env still returns it
C27_Witness ==
    /\ env.disabled
    /\ Len(env.log) = 2
    /\ ~ env.log[1].disabled /\ env.log[2].disabled
    /\ env.log[1].key = env.log[2].key
    /\ env.log[1].type = env.log[2].type
    /\ env.log[1].val # env.log[2].val
    /\ \E id \in DOMAIN env.seen :
          /\ env.seen[id].calls = 2
          /\ env.seen[id].vals[env.log[1].key][env.log[1].type] =
                EnvSome(env.log[1].val)
    /\ GetEnv(env, env.log[1].key, env.log[1].type) = EnvSome(env.log[1].val)

(***************************************************************************)
(* The claim about the command-line program                                *)
(***************************************************************************)
\* the graph of the file was executed: parse_tasks returned the tasks and
\* run() returned Ok(true)
ExecutedSuccessfully ==
    /\ Parsed /\ yaml.result.err = NoError
    /\ engine.pc = "returned" /\ engine.ret = "true"

\* C29: the command-line program exits with 0 exactly when the graph was
\* executed successfully: a file that does not parse, a cycle and a task
\* that fails all give another exit status.
C29_ExitCodeTellsSuccess ==
    cli.pc = "exited" => (cli.exit = 0 <=> ExecutedSuccessfully)

(***************************************************************************)
(* The claim about Graph::topo_sort of engine/graph.rs                     *)
(***************************************************************************)
\* the edges of the graph: <<v, w>> for every w in adj[v]
RelyEdges(g) ==
    {e \in (1 .. g.size) \X (1 .. g.size) :
        \E k \in 1 .. Len(g.adj[e[1]]) : g.adj[e[1]][k] = e[2]}

\* the pairs joined by a path of edges of E
RECURSIVE RelyPaths(_)
RelyPaths(E) ==
    LET longer == E \cup UNION {{<<e[1], f[2]>> : f \in {h \in E : h[1] = e[2]}} :
                                e \in E}
    IN IF longer = E THEN E ELSE RelyPaths(longer)

\* some node of the graph lies on a cycle
RelyCyclic(g) == \E e \in RelyPaths(RelyEdges(g)) : e[1] = e[2]

\* create_graph has built the graph, check_dag has called topo_sort on it
\* and nothing else has happened: no spawned task has taken a step yet
GraphFormed ==
    /\ engine.pc \in {"joining", "returned"}
    /\ engine.ret # "RelyTaskIllegal"
    /\ GraphUntouched
    /\ engine.joined = 0
    /\ \A id \in DOMAIN engine.job :
          engine.job[id] = SpawnedJob(engine.rely_graph, id)

\* C31: topo_sort of the legacy engine returns None exactly when the graph
\* has a cycle; otherwise it returns a sequence that holds every index once
\* and in which v stands before w for every edge v -> w.
C31_TopoSortOrdersAcyclic ==
    GraphFormed =>
        LET g == engine.rely_graph
            t == TopoSort(g)
            cyclic == RelyCyclic(g)
            at(v) == CHOOSE i \in 1 .. Len(t.sequence) : t.sequence[i] = v
        IN /\ t.some <=> ~ cyclic
           /\ engine.ret = "false" <=> cyclic
           /\ t.some =>
                 /\ Len(t.sequence) = g.size
                 /\ Range(t.sequence) = 1 .. g.size
                 /\ \A e \in RelyEdges(g) : at(e[1]) < at(e[2])

\* run() sorted a graph of three tasks, the third one after the two others,
\* and spawned the tasks in the order of the sequence
C31_Witness ==
    /\ GraphFormed /\ engine.pc = "joining"
    /\ engine.rely_graph.size = 3
    /\ Cardinality(RelyEdges(engine.rely_graph)) >= 2
    /\ \E e, f \in RelyEdges(engine.rely_graph) : e[2] = f[2] /\ e[1] # f[1]
    /\ Len(engine.handles) = 3

(***************************************************************************)
(* The claims about the bookkeeping of add_node and add_edge               *)
(***************************************************************************)
\* C36: after any add_node and add_edge calls in_degree[v] is the number of
\* nodes that hold an out-channel to v.
C36_InDegreeCountsSenders ==
    phase = "idle" /\ starts = 0 =>
        \A v \in DOMAIN in_degree :
            in_degree[v] = Cardinality({u \in DOMAIN nodes : v \in out_channels[u]})

\* C37: after any add_node calls, with no add_edge call among them,
\* node_count is the number of nodes the graph stores, and nodes and
\* in_degree have the same keys.
C37_NodeCountCountsNodes ==
    (phase = "idle" /\ starts = 0 /\ \A u \in NodeIds : out_channels[u] = {}) =>
        /\ node_count = Cardinality(DOMAIN nodes)
        /\ DOMAIN nodes = DOMAIN in_degree

(***************************************************************************)
(* The claim about a start() that is rejected                              *)
(***************************************************************************)
\* C35: when the graph still holds the outputs of its last run, one of
\* them the output of a node, a start() that returns GraphNotActive or GraphLoopDetected leaves the outputs
\* get_outputs() returns as they were.
C35_RejectedStartKeepsOutputs ==
    [][(StartCalled /\ starts >= 1
          /\ last.result.kind # "none"
          /\ GetOutputs = last.outputs
          /\ \E n \in DOMAIN execute_states : execute_states[n].output # "None"
          /\ result'.kind \in {"GraphNotActive", "GraphLoopDetected"})
          => GetOutputs' = GetOutputs]_vars

(***************************************************************************)
(* The claim about the nodes a false condition stops                       *)
(***************************************************************************)
\* the conditional nodes of the graph
ConditionalNodes == {c \in DOMAIN nodes : IsCondition(nodes[c])}

\* the nodes no path leads to from a conditional node
Unconditioned ==
    {n \in DOMAIN nodes \ ConditionalNodes :
        \A c \in ConditionalNodes : n \notin Descendants(c)}

\* C38: when start() has returned from a run in which no action failed and
\* a conditional node returned false, every node that no path leads to from
\* a conditional node has run its action and recorded its output.
C38_FalseConditionStopsDescendantsOnly ==
    ( /\ RunOver /\ starts = 1
      /\ DistinctIds /\ EdgesOverNodes /\ ~ HasCycle
      /\ \A n \in DOMAIN nodes : nodes[n] \in {"hello", "relay", "cond_false"}
      /\ \E c \in ConditionalNodes : Outcome(c) = "success" )
        => \A n \in Unconditioned :
              /\ Outcome(n) = "success"
              /\ Invoked(n) = 1

(***************************************************************************)
(* SpecLive: Spec with the scheduling of the runtime. A task that can be   *)
(* polled is polled and run() goes on when what it awaits is there: a step *)
(* of the run that stays possible is taken.                                *)
(***************************************************************************)
SpecLive == Spec /\ WF_vars(Run)

\* C39: a run of a graph whose actions do not panic ends: start() returns,
\* also when an action returned Err or finished without sending on one of
\* its out-channels, for the successor waiting in recv_from is unblocked.
C39_StartEventuallyReturns ==
    (phase = "running" /\ \A n \in DOMAIN nodes : nodes[n] \in {"hello", "relay", "err"})
        ~> (phase = "idle")

(***************************************************************************)
(* SpecEnginesLive: SpecEngines with the scheduling of the runtime. A      *)
(* spawned task that can go on is polled, and check_dag goes on when the   *)
(* handle it awaits is ready.                                              *)
(***************************************************************************)
EngineStep ==
    \/ \E id \in EngineIds : EngineAcquire(id)
    \/ \E id \in EngineIds : EngineExecute(id)
    \/ \E id \in EngineIds : EngineAddPermits(id)
    \/ EngineJoin
    \/ EngineReturn

SpecEnginesLive == SpecEngines /\ WF_vars(EngineStep)

\* the <<predecessor, task>> pairs of the tasks given to the engine
TaskEdges ==
    UNION {{<<engine.tasks[id].predecessors[k], id>> :
                k \in 1 .. Len(engine.tasks[id].predecessors)} :
           id \in DOMAIN engine.tasks}

\* the tasks depend on each other only, without a cycle, and every action
\* returns Ok
AcyclicOkTasks ==
    /\ \A id \in DOMAIN engine.tasks : engine.tasks[id].kind \in {"ok", "empty"}
    /\ \A e \in TaskEdges : e[1] \in DOMAIN engine.tasks
    /\ \A e \in RelyPaths(TaskEdges) : e[1] # e[2]

\* how many times the tasks wait for task id: once per entry of a
\* predecessor list that names it
Waits(id) ==
    Cardinality({e \in (DOMAIN engine.tasks) \X (1 .. MaxPredecessors) :
                    /\ e[2] <= Len(engine.tasks[e[1]].predecessors)
                    /\ engine.tasks[e[1]].predecessors[e[2]] = id})

\* run() has returned true, every task was executed by one spawned task that
\* completed, and no semaphore holds a permit
RunCompleted ==
    /\ engine.pc = "returned"
    /\ engine.ret = "true"
    /\ DOMAIN engine.job = DOMAIN engine.tasks
    /\ Len(engine.handles) = Cardinality(DOMAIN engine.tasks)
    /\ \A id \in DOMAIN engine.tasks :
          /\ engine.job[id].pc = "finished"
          /\ engine.job[id].complete
          /\ id \in DOMAIN env.seen
          /\ engine.execute_states[id].permits = 0

\* C40: a run of the engine over tasks that depend on each other without a
\* cycle and whose actions all return Ok ends: it returns true, and by then
\* every task was executed once and every semaphore holds zero permits. A
\* predecessor listed twice is waited for, and released, twice.
C40_AcyclicRunCompletes ==
    /\ [](engine.pc = "returned" /\ AcyclicOkTasks /\ engine.tasks # EmptyMap
              => RunCompleted)
    /\ [](\A id \in DOMAIN engine.job :
              engine.job[id].complete /\ AcyclicOkTasks
                  => engine.job[id].released = Waits(id))
    /\ (engine.pc = "joining" /\ AcyclicOkTasks) ~> RunCompleted

\* run() has returned true for three tasks, of which one lists the same
\* predecessor twice and one waits for two tasks
C40_Witness ==
    /\ RunCompleted
    /\ AcyclicOkTasks
    /\ Cardinality(DOMAIN engine.tasks) = 3
    /\ \E id \in DOMAIN engine.tasks :
          LET p == engine.tasks[id].predecessors
          IN Len(p) = 2 /\ p[1] = p[2]
    /\ \E id \in DOMAIN engine.tasks :
          /\ engine.job[id].released = 2
          /\ Len(engine.job[id].inputs) = 0

(***************************************************************************)
(* The legacy YAML path: YamlTask::from_yaml of task/yaml_task.rs, whose   *)
(* TaskWrappers take their ids from the IDAllocator of task/task.rs        *)
(***************************************************************************)
\* IDAllocator::alloc under the lock: self.id += 1; self.id - 1.  With
\* overflow checks the addition panics at the last value, without them both
\* operations wrap
IDAllocatorAlloc(l, checked) ==
    LET overflow == l.id + 1 >= IdModulus
        next == (l.id + 1) % IdModulus
    IN [panic |-> l.poisoned \/ (overflow /\ checked),
        wrapped |-> overflow \/ next = 0,
        id |-> (next + IdModulus - 1) % IdModulus,
        locked |-> [l EXCEPT !.id = next,
                             !.wraps = @ + (IF overflow THEN 1 ELSE 0)]]

\* from_yaml, "Form tasks": TaskWrapper::new for every task of the file in
\* the order of the file; yid2id.insert(yaml_id, task.get_id())
RECURSIVE FormTasks(_, _, _, _, _)
FormTasks(items, l, checked, yid2id, wrapped) ==
    IF items = <<>>
    THEN [panic |-> FALSE, yid2id |-> yid2id, locked |-> l, wrapped |-> wrapped]
    ELSE LET a == IDAllocatorAlloc(l, checked)
         IN IF a.panic
            THEN [panic |-> TRUE, yid2id |-> yid2id,
                  locked |-> [l EXCEPT !.poisoned = TRUE], wrapped |-> wrapped]
            ELSE FormTasks(Tail(items), a.locked, checked,
                           Insert(yid2id, Head(items).key, a.id),
                           wrapped \/ a.wrapped)

\* from_yaml, afters: yid2id.get(after).unwrap_or(&0) for every entry
Afters(after, yid2id) ==
    [j \in 1 .. Len(after) |->
        IF after[j] \in DOMAIN yid2id THEN yid2id[after[j]] ELSE 0]

\* the file holds tasks parse_one accepts: each has a name and a script
WellFormedItems ==
    \A i \in 1 .. Len(yaml.file.items) :
        yaml.file.items[i].name /\ yaml.file.items[i].run = "sh"

\* run_from_yaml up to run(): from_yaml forms the tasks and add_tasks hands
\* them to the engine.  A panic of alloc() ends the call and poisons the lock.
FromYaml ==
    /\ yaml.pc = "none"
    /\ yaml.file.header = "ok"
    /\ WellFormedItems
    /\ engine.pc = "new"
    /\ \E checked \in BOOLEAN :
          /\ overflow_checks # "unobserved" => (checked <=> overflow_checks = "on")
          /\ LET items == yaml.file.items
                 f == FormTasks(items, allocator.locked, checked, EmptyMap, FALSE)
             IN /\ allocator' = [allocator EXCEPT !.locked = f.locked,
                                                  !.fatal.locked = @ \/ f.panic]
                /\ overflow_checks' = IF f.panic THEN "on"
                                      ELSE IF f.wrapped THEN "off"
                                      ELSE overflow_checks
                /\ yaml' = [yaml EXCEPT !.pc = "done", !.result.panic = f.panic]
                /\ IF f.panic
                   THEN UNCHANGED engine
                   ELSE engine' =
                          [engine EXCEPT
                             !.tasks =
                                [id \in Range(f.yid2id) |->
                                    LET item == CHOOSE t \in Range(items) :
                                                    f.yid2id[t.key] = id
                                    IN [predecessors |-> Afters(item.after, f.yid2id),
                                        kind |-> "ok"]]]
    /\ UNCHANGED << build, chan, execute_states, is_active, blocks, phase,
                    tasks, chunk, joining, condition_flag, errors, result,
                    sent, last, client, wire, bcst, probe, manager, derive, env, cli >>

(***************************************************************************)
(* SpecLegacyYaml: a program that has made TaskWrappers of its own writes  *)
(* a file and hands it to DagEngine::run_from_yaml.                        *)
(***************************************************************************)
InitLegacyYaml == InitBuild

NextLegacyYaml ==
    \/ /\ yaml.pc = "none"
       /\ allocator.calls.locked < MaxLegacyAllocs
       /\ LockedAlloc(1)
    \/ \E i \in 1 .. MaxYamlTasks : \E item \in YamlItems(i) :
          item.name /\ item.run = "sh" /\ WriteItem(item)
    \/ allocator.thread[1].pc = "idle" /\ FromYaml
    \/ yaml.pc = "done" /\ ~ yaml.result.panic /\ EngineRun
    \/ \E id \in DOMAIN engine.job : EngineAcquire(id)
    \/ \E id \in DOMAIN engine.job : EngineExecute(id)
    \/ \E id \in DOMAIN engine.job : EngineAddPermits(id)
    \/ EngineJoin
    \/ EngineReturn

SpecLegacyYaml == InitLegacyYaml /\ [][NextLegacyYaml]_vars

\* a task of the file lists, under `after`, a key the file does not hold
DanglingAfter ==
    \E i \in 1 .. Len(yaml.file.items) :
        \E j \in 1 .. Len(yaml.file.items[i].after) :
            \A k \in 1 .. Len(yaml.file.items) :
                yaml.file.items[k].key # yaml.file.items[i].after[j]

\* C32: a file in which a task's `after` names a task that does not exist
\* gives that task the predecessor 0, which is the id of no task, so run()
\* returns RelyTaskIllegal and no task is executed.
C32_DanglingAfterIsRejected ==
    (yaml.pc = "done" /\ ~ yaml.result.panic /\ DanglingAfter)
        => /\ 0 \notin DOMAIN engine.tasks
           /\ \E id \in DOMAIN engine.tasks :
                 0 \in Range(engine.tasks[id].predecessors)
           /\ engine.pc # "new"
                 => /\ engine.pc = "returned"
                    /\ engine.ret = "RelyTaskIllegal"
                    /\ engine.job = EmptyMap
                    /\ env.seen = EmptyMap

(***************************************************************************)
(* Engine of engine/mod.rs, which manages several Dags.  A Dag is what the *)
(* Engine sees of it: whether its init() succeeds and what its run()       *)
(* returns; tag tells the Dags of different append_dag calls apart.        *)
(***************************************************************************)
DagNames == [i \in 1 .. MaxDagNames + 1 |->
                <<"graph1", "graph2", "graph3", "graph4", "graph5">>[i]]

Dags(tag) == [tag : {tag}, init_ok : BOOLEAN, status : BOOLEAN]

UnchangedByManager == UNCHANGED << graph_vars, wire, bcst, allocator, engine, probe, yaml, env, cli, derive >>

\* append_dag(name, dag): a new name whose Dag initialises is stored and
\* gets the next sequence number, sequence.len() + 1
AppendDag(name, dag) ==
    /\ manager' =
          [manager EXCEPT
              !.calls = Append(@, [name |-> name, dag |-> dag]),
              !.dags = IF name \notin DOMAIN manager.dags /\ dag.init_ok
                       THEN Insert(@, name, dag) ELSE @,
              !.sequence = IF name \notin DOMAIN manager.dags /\ dag.init_ok
                           THEN Insert(@, Cardinality(DOMAIN @) + 1, name)
                           ELSE @]
    /\ UnchangedByManager

\* run_dag(name) as a function of the Engine: false for an unknown name,
\* else what block_on(job.run()) returns; ran tells the Dags it has run
RunDagOf(m, name) ==
    IF name \notin DOMAIN m.dags
    THEN [ret |-> FALSE, ran |-> <<>>]
    ELSE [ret |-> m.dags[name].status, ran |-> <<name>>]

\* a run_sequential that goes from the largest sequence number down
SequenceNumbers_Descending(sequence) ==
    [i \in 1 .. Cardinality(DOMAIN sequence) |->
        Cardinality(DOMAIN sequence) + 1 - i]

\* run_sequential: for seq in 1..self.sequence.len() + 1
SequenceNumbers(sequence) == [i \in 1 .. Cardinality(DOMAIN sequence) |-> i]

RunDag(name) ==
    /\ manager' = [manager EXCEPT
                      !.runs = @ \o RunDagOf(manager, name).ran,
                      !.ret = [of |-> "run_dag", name |-> name,
                               value |-> <<RunDagOf(manager, name).ret>>],
                      !.run_calls = @ + 1]
    /\ UnchangedByManager

\* run_sequential: run_dag of the name of every sequence number, its result
\* pushed to res
RunSequential ==
    /\ LET numbers == SequenceNumbers(manager.sequence)
           names == [i \in DOMAIN numbers |-> manager.sequence[numbers[i]]]
       IN manager' =
            [manager EXCEPT
                !.runs = @ \o names,
                !.ret = [of |-> "run_sequential", name |-> "",
                         value |-> [i \in DOMAIN names |->
                                       RunDagOf(manager, names[i]).ret]],
                !.run_calls = @ + 1]
    /\ UnchangedByManager

(***************************************************************************)
(* SpecManager: a program that appends Dags to an Engine and runs them.    *)
(***************************************************************************)
InitManager == InitBuild

NextManager ==
    \/ \E i \in 1 .. MaxDagNames : \E dag \in Dags(Len(manager.calls) + 1) :
          Len(manager.calls) < MaxAppends /\ AppendDag(DagNames[i], dag)
    \/ \E i \in 1 .. MaxDagNames + 1 :
          manager.run_calls < MaxManagerRuns /\ RunDag(DagNames[i])
    \/ manager.run_calls < MaxManagerRuns /\ RunSequential

SpecManager == InitManager /\ [][NextManager]_vars

\* the Dags the Engine has registered after the given append_dag calls, in
\* the order of the calls: a call registers its Dag when the Dag initialises
\* and no earlier call has registered one under the name
RECURSIVE Registered(_)
Registered(calls) ==
    IF calls = <<>> THEN <<>>
    ELSE LET before == Registered(SubSeq(calls, 1, Len(calls) - 1))
             call == calls[Len(calls)]
         IN IF call.dag.init_ok /\ \A i \in 1 .. Len(before) : before[i].name # call.name
            THEN Append(before, call)
            ELSE before

\* the step is an append_dag that registers nothing: the name is taken, or
\* the Dag does not initialise
AppendRejected ==
    /\ Len(manager'.calls) = Len(manager.calls) + 1
    /\ LET call == manager'.calls[Len(manager'.calls)]
       IN call.name \in DOMAIN manager.dags \/ ~ call.dag.init_ok

\* C33: run_sequential runs the registered Dags one after another in the
\* order they were appended and returns one status per registered Dag in
\* that order; an append_dag with a name already present, or with a Dag whose
\* init fails, changes neither the stored Dags nor the sequence numbers; a
\* run_dag of an unknown name returns false and runs nothing.
C33_EngineRunsInAppendOrder ==
    [][ LET registered == Registered(manager.calls)
            ran == SubSeq(manager'.runs, Len(manager.runs) + 1, Len(manager'.runs))
        IN /\ (manager'.run_calls # manager.run_calls /\ manager'.ret.of = "run_sequential")
                 => /\ ran = [i \in 1 .. Len(registered) |-> registered[i].name]
                    /\ manager'.ret.value =
                          [i \in 1 .. Len(registered) |-> registered[i].dag.status]
                    /\ \A i \in 1 .. Len(registered) :
                          manager.dags[registered[i].name] = registered[i].dag
           /\ AppendRejected
                 => /\ manager'.dags = manager.dags
                    /\ manager'.sequence = manager.sequence
           /\ ( /\ manager'.run_calls # manager.run_calls
                /\ manager'.ret.of = "run_dag"
                /\ manager'.ret.name \notin DOMAIN manager.dags )
                 => /\ manager'.ret.value = <<FALSE>>
                    /\ ran = <<>>
      ]_vars

\* run_sequential has returned the statuses of two Dags, a failed and a
\* successful one, after an append_dag under a taken name and one of a Dag
\* that does not initialise
C33_Witness ==
    /\ manager.ret.of = "run_sequential"
    /\ manager.ret.value = <<FALSE, TRUE>>
    /\ Len(manager.runs) = 2
    /\ Len(manager.calls) = 3
    /\ \E i \in 1 .. 3 : ~ manager.calls[i].dag.init_ok
                            \/ \E j \in 1 .. (i - 1) :
                                  /\ manager.calls[j].name = manager.calls[i].name
                                  /\ manager.calls[j].dag.init_ok

(***************************************************************************)
(* The dependencies! macro of dagrs_derive: the parsed input is a list of  *)
(* Relay { task, successors }, one per `task -> successors,`               *)
(***************************************************************************)
Idents == {<<"a", "b", "c", "d", "e">>[i] : i \in 1 .. MaxIdents}

SuccessorLists == UNION {[1 .. k -> Idents] : k \in 0 .. MaxSuccessors}

UnchangedByDerive == UNCHANGED << graph_vars, wire, bcst, allocator, engine, probe, yaml, env, cli, manager >>

\* Tasks::check_duplicate: an Err for the first task that is declared again
CheckDuplicate(relays) ==
    \E i, j \in 1 .. Len(relays) : i < j /\ relays[i].task = relays[j].task

\* the keys of the HashMap `tasks` whose successors hold the item
Precursors(relays, item) ==
    {relays[k].task : k \in {k \in 1 .. Len(relays) : item \in Range(relays[k].successors)}}

\* One more declaration is written into the macro input.
Declare(task, successors) ==
    /\ derive.pc = "input"
    /\ Len(derive.input) < MaxRelays
    /\ derive' = [derive EXCEPT !.input = Append(@, [task |-> task,
                                                     successors |-> successors])]
    /\ UnchangedByDerive

\* Tasks::resolve_dependencies: after check_duplicate, one Task per item of
\* seq; its precursors are pushed in the order the HashMap iterates, which
\* is any order
ResolveDependencies ==
    /\ derive.pc = "input"
    /\ derive.input # <<>>
    /\ IF CheckDuplicate(derive.input)
       THEN derive' = [derive EXCEPT !.pc = "resolved",
                                     !.result = [err |-> TRUE, tasks |-> <<>>]]
       ELSE LET n == Len(derive.input)
                pre(i) == Orders(Precursors(derive.input, derive.input[i].task))
            IN \E order \in {f \in [1 .. n -> UNION {pre(i) : i \in 1 .. n}] :
                                 \A i \in 1 .. n : f[i] \in pre(i)} :
                 derive' =
                   [derive EXCEPT
                       !.pc = "resolved",
                       !.result = [err |-> FALSE,
                                   tasks |-> [i \in 1 .. n |->
                                                 [task |-> derive.input[i].task,
                                                  precursors |-> order[i]]]]]
    /\ UnchangedByDerive

(***************************************************************************)
(* SpecDerive: the macro is given an input and expanded.                   *)
(***************************************************************************)
InitDerive == InitBuild

NextDerive ==
    \/ \E task \in Idents, successors \in SuccessorLists : Declare(task, successors)
    \/ ResolveDependencies

SpecDerive == InitDerive /\ [][NextDerive]_vars

\* the edges written in the macro input
WrittenEdges ==
    UNION {{<<derive.input[k].task, derive.input[k].successors[j]>> :
                j \in 1 .. Len(derive.input[k].successors)} :
           k \in 1 .. Len(derive.input)}

\* the edges of the result: a precursor of a Task, and the Task
ResolvedEdges ==
    UNION {{<<derive.result.tasks[i].precursors[j], derive.result.tasks[i].task>> :
                j \in 1 .. Len(derive.result.tasks[i].precursors)} :
           i \in 1 .. Len(derive.result.tasks)}

\* C34: resolve_dependencies rejects an input that declares a task twice;
\* otherwise it returns one Task per declaration, in the order of the
\* declarations, whose precursors are the declared tasks that list it as a
\* successor, and every edge written in the input is an edge of the result.
C34_DependenciesResolved ==
    derive.pc = "resolved"
        => IF \E i, j \in 1 .. Len(derive.input) :
                  i # j /\ derive.input[i].task = derive.input[j].task
           THEN derive.result.err
           ELSE /\ ~ derive.result.err
                /\ Len(derive.result.tasks) = Len(derive.input)
                /\ \A i \in 1 .. Len(derive.input) :
                      /\ derive.result.tasks[i].task = derive.input[i].task
                      /\ Range(derive.result.tasks[i].precursors) =
                            {e[1] : e \in {w \in WrittenEdges :
                                              w[2] = derive.input[i].task}}
                /\ WrittenEdges \subseteq ResolvedEdges
====
